---- MODULE Spec2Model ----
(***************************************************************************)
(* A model of the griptape-mcp scrape-and-index pipeline:                  *)
(*   - fetch_pages / fetch_one   (scripts/scrape_common.py)                *)
(*   - the corpus store schema   (src/griptape_mcp/db.py, SCHEMA_SQL)      *)
(*   - the three site scrapers   (scripts/scrape_*.py)                     *)
(*                                                                         *)
(* Spec      : one run of fetch_pages, the tasks interleaving at their     *)
(*             await points under the asyncio event loop.                  *)
(* SpecStore : scraper runs writing to one store.                          *)
(***************************************************************************)
EXTENDS Integers, Sequences, FiniteSets, TLC

(***************************************************************************)
(* Program constants (scripts/scrape_common.py).                           *)
(***************************************************************************)
MAX_CONCURRENT == 3

REQUEST_DELAY == 1

MAX_RETRIES == 5

MAX_RESPONSE_SIZE == 10000000

(***************************************************************************)
(* Bounds of the model.                                                    *)
(***************************************************************************)
NumUrls == 4

\* Python's None.  Strings are tuples of characters, "" is <<>>, and None is
\* a tuple that is no string of the model.
None == <<"None">>

VARIABLES
    \* ---- fetch_pages ----
    urls,       \* the list handed to fetch_pages
    pc,         \* per task: position of fetch_one
    attempt,    \* per task: the loop variable of `for attempt in range(MAX_RETRIES)`
    value,      \* asyncio.Semaphore: free permits
    waiters,    \* asyncio.Semaphore: FIFO of tasks blocked in acquire
    result,     \* per task: the dict fetch_one returned (NoOutcome while running)
    fp,         \* fetch_pages itself: "running", "returned" or "raised"
    results,    \* the list fetch_pages returns
    \* ---- history of one task of the run (not program state) ----
    watch,      \* the task whose history is recorded: any one of them
    sent,       \* number of client.get calls the watched task has made
    resps,      \* the class of each response the watched task received, in order
    waits,      \* the arguments of the watched task's asyncio.sleep calls, in order
    \* ---- the store and the scraper writing to it ----
    db,         \* the tables of the SQLite file
    run,        \* the scraper run in progress: its locals
    last,       \* the page the loop of the scraper handled last (not program state)
    written,    \* per URL, what the most recent write of it stored (not program state)
    build,      \* build_db.build: its position and locals ("none": no build runs)
    \* ---- the query layer ----
    ask         \* the call in progress: function, arguments and what it returned

fetchVars == <<urls, pc, attempt, value, waiters, result, fp, results>>

histVars == <<watch, sent, resps, waits>>

storeVars == <<db, run, last, written, build, ask>>

vars == <<urls, pc, attempt, value, waiters, result, fp, results,
          watch, sent, resps, waits, db, run, last, written, build, ask>>

Tasks == 1..Len(urls)

Url(i) == <<"https://docs.griptape.ai/stable/", "page", i>>

\* The text of a page, where only its presence matters.
PageText == <<"<html>">>

(***************************************************************************)
(* What the server (or the network) can answer to one client.get.          *)
(*   exc    : client.get raised (network error, timeout)                   *)
(*   status : HTTP status code                                             *)
(*   clen   : the content-length header, 0 when absent                     *)
(*   len    : len(resp.text)                                               *)
(*   text   : resp.text                                                    *)
(***************************************************************************)
Response(exc, status, clen, len, text) ==
    [exc |-> exc, status |-> status, clen |-> clen, len |-> len, text |-> text]

NetworkError == Response(TRUE, 0, 0, 0, None)

TooManyRequests == Response(FALSE, 429, 0, 0, None)

ServerError == Response(FALSE, 500, 0, 0, None)

\* 2xx answers carrying text t, around the size limit.
Pages(t) ==
    { Response(FALSE, 200, 0, MAX_RESPONSE_SIZE, t),
      Response(FALSE, 200, MAX_RESPONSE_SIZE, MAX_RESPONSE_SIZE, t),
      Response(FALSE, 200, MAX_RESPONSE_SIZE + 1, MAX_RESPONSE_SIZE, t),
      Response(FALSE, 200, 0, MAX_RESPONSE_SIZE + 1, t) }

Responses == {NetworkError, TooManyRequests, ServerError} \cup Pages(PageText)

\* httpx.Response.raise_for_status: anything that is not 2xx raises.
RaisesForStatus(r) == ~(r.status >= 200 /\ r.status <= 299)

InSize(r) == r.clen <= MAX_RESPONSE_SIZE /\ r.len <= MAX_RESPONSE_SIZE

\* The server behaviours the fetcher distinguishes.
Class(r) ==
    IF r.exc THEN "exception"
    ELSE IF r.status = 429 THEN "429"
    ELSE IF RaisesForStatus(r) THEN "status"
    ELSE IF InSize(r) THEN "ok" ELSE "oversized"

Outcome(u, html, error) == [url |-> u, html |-> html, error |-> error]

\* The slot of a task that has not returned yet.
NoOutcome == Outcome(None, None, None)

TooLarge(n) == <<"Response too large", n, "bytes">>

MaxRetriesExceeded == <<"Max retries exceeded (429)">>

\* Backoff with the 0-based loop index used as it is.
Backoff_zero_based(a) == 10 * a

Backoff(a) == 10 * (a + 1)

(***************************************************************************)
(* One iteration of the retry loop of fetch_one, from the moment the       *)
(* answer r to the request of iteration a is known.  The result says what  *)
(* the coroutine does next:                                                *)
(*   op = "continue" : asyncio.sleep(wait), then the next iteration        *)
(*   op = "delay"    : asyncio.sleep(wait), then return out                *)
(*   op = "return"   : return out at once                                  *)
(*   op = "raise"    : an exception leaves fetch_one                       *)
(***************************************************************************)
\* fetch_one without its `except Exception` clause.
fetch_one_step_no_except(u, a, r) ==
    IF r.exc
    THEN [op |-> "raise", wait |-> 0, out |-> None]
    ELSE IF r.status = 429
    THEN [op |-> "continue", wait |-> Backoff(a), out |-> None]
    ELSE IF RaisesForStatus(r)
    THEN [op |-> "return", wait |-> 0,
          out |-> Outcome(u, None, <<"HTTPStatusError", r.status>>)]
    ELSE IF r.clen > MAX_RESPONSE_SIZE
    THEN [op |-> "return", wait |-> 0, out |-> Outcome(u, None, TooLarge(r.clen))]
    ELSE IF r.len > MAX_RESPONSE_SIZE
    THEN [op |-> "return", wait |-> 0, out |-> Outcome(u, None, TooLarge(r.len))]
    ELSE [op |-> "delay", wait |-> REQUEST_DELAY, out |-> Outcome(u, r.text, None)]

\* fetch_one retrying on every HTTPStatusError, not only on 429.
fetch_one_step_retry_status(u, a, r) ==
    IF r.exc
    THEN [op |-> "return", wait |-> 0, out |-> Outcome(u, None, <<"ConnectError">>)]
    ELSE IF r.status = 429 \/ RaisesForStatus(r)
    THEN [op |-> "continue", wait |-> Backoff(a), out |-> None]
    ELSE IF r.clen > MAX_RESPONSE_SIZE
    THEN [op |-> "return", wait |-> 0, out |-> Outcome(u, None, TooLarge(r.clen))]
    ELSE IF r.len > MAX_RESPONSE_SIZE
    THEN [op |-> "return", wait |-> 0, out |-> Outcome(u, None, TooLarge(r.len))]
    ELSE [op |-> "delay", wait |-> REQUEST_DELAY, out |-> Outcome(u, r.text, None)]

\* fetch_one trusting the declared content-length only when it is absent:
\* no check of the header.
fetch_one_step_no_declared_check(u, a, r) ==
    IF r.exc
    THEN [op |-> "return", wait |-> 0, out |-> Outcome(u, None, <<"ConnectError">>)]
    ELSE IF r.status = 429
    THEN [op |-> "continue", wait |-> Backoff(a), out |-> None]
    ELSE IF RaisesForStatus(r)
    THEN [op |-> "return", wait |-> 0,
          out |-> Outcome(u, None, <<"HTTPStatusError", r.status>>)]
    ELSE IF r.len > MAX_RESPONSE_SIZE
    THEN [op |-> "return", wait |-> 0, out |-> Outcome(u, None, TooLarge(r.len))]
    ELSE [op |-> "delay", wait |-> REQUEST_DELAY, out |-> Outcome(u, r.text, None)]

fetch_one_step(u, a, r) ==
    IF r.exc
    THEN [op |-> "return", wait |-> 0, out |-> Outcome(u, None, <<"ConnectError">>)]
    ELSE IF r.status = 429
    THEN [op |-> "continue", wait |-> Backoff(a), out |-> None]
    ELSE IF RaisesForStatus(r)
    THEN IF r.status = 429 /\ a < MAX_RETRIES - 1
         THEN [op |-> "continue", wait |-> Backoff(a), out |-> None]
         ELSE [op |-> "return", wait |-> 0,
               out |-> Outcome(u, None, <<"HTTPStatusError", r.status>>)]
    ELSE IF r.clen > MAX_RESPONSE_SIZE
    THEN [op |-> "return", wait |-> 0, out |-> Outcome(u, None, TooLarge(r.clen))]
    ELSE IF r.len > MAX_RESPONSE_SIZE
    THEN [op |-> "return", wait |-> 0, out |-> Outcome(u, None, TooLarge(r.len))]
    ELSE [op |-> "delay", wait |-> REQUEST_DELAY, out |-> Outcome(u, r.text, None)]

\* A retry loop that runs one iteration too many.
HasNextAttempt_one_more(a) == a + 1 <= MAX_RETRIES

\* The loop `for attempt in range(MAX_RETRIES)` has another iteration after a.
HasNextAttempt(a) == a + 1 < MAX_RETRIES

(***************************************************************************)
(* asyncio.Semaphore.  acquire takes a permit when one is free and nobody  *)
(* is queued, and queues the task otherwise; release hands the permit to   *)
(* the first queued task, or puts it back.                                 *)
(***************************************************************************)
\* An acquire that lets a task in when no permit is left.
CanAcquire_off_by_one == value >= 0 /\ waiters = <<>>

CanAcquire == value > 0 /\ waiters = <<>>

\* A release that puts the permit back without waking the first queued task.
ReleaseBy_no_wake(i, newpc) ==
    /\ pc' = [pc EXCEPT ![i] = newpc]
    /\ waiters' = waiters
    /\ value' = value + 1

\* pc, value and waiters after task i leaves `async with semaphore`.
ReleaseBy(i, newpc) ==
    IF waiters # <<>>
    THEN /\ pc' = [pc EXCEPT ![i] = newpc, ![Head(waiters)] = "woken"]
         /\ waiters' = Tail(waiters)
         /\ value' = value
    ELSE /\ pc' = [pc EXCEPT ![i] = newpc]
         /\ waiters' = waiters
         /\ value' = value + 1

\* Task i is inside `async with semaphore`.
Holding(i) == pc[i] \in {"woken", "request", "backoff", "delay"}

AllStarted == \A i \in Tasks : pc[i] # "created"

(***************************************************************************)
(* fetch_pages: state after `tasks = [...]`, before the loop runs them.    *)
(***************************************************************************)
InitFetch ==
    /\ \E n \in 0..NumUrls : urls = [i \in 1..n |-> Url(i)]
    /\ pc = [i \in Tasks |-> "created"]
    /\ attempt = [i \in Tasks |-> 0]
    /\ value = MAX_CONCURRENT
    /\ waiters = <<>>
    /\ result = [i \in Tasks |-> NoOutcome]
    /\ fp = "running"
    /\ results = <<>>
    /\ watch = 0
    /\ sent = 0
    /\ resps = <<>>
    /\ waits = <<>>

\* The watched task sends a request / sleeps / gets an answer.
NoteRequest(i) == sent' = IF i = watch THEN sent + 1 ELSE sent

NoteSleep(i, w) == waits' = IF i = watch THEN Append(waits, w) ELSE waits

NoteResponse(i, r) == resps' = IF i = watch THEN Append(resps, Class(r)) ELSE resps

\* First step of task i: the event loop runs the tasks in creation order,
\* each up to its first suspension (the acquire, or the request).
Start(i) ==
    /\ fp = "running"
    /\ pc[i] = "created"
    /\ \A j \in Tasks : j < i => pc[j] # "created"
    /\ IF CanAcquire
       THEN /\ value' = value - 1
            /\ waiters' = waiters
            /\ pc' = [pc EXCEPT ![i] = "request"]
            /\ NoteRequest(i)
       ELSE /\ value' = value
            /\ waiters' = Append(waiters, i)
            /\ pc' = [pc EXCEPT ![i] = "waiting"]
            /\ sent' = sent
    /\ UNCHANGED <<urls, attempt, result, fp, results, watch, resps, waits>>
    /\ UNCHANGED storeVars

\* A task that was handed a permit resumes and sends its first request.
Resume(i) ==
    /\ fp = "running"
    /\ pc[i] = "woken"
    /\ pc' = [pc EXCEPT ![i] = "request"]
    /\ NoteRequest(i)
    /\ UNCHANGED <<urls, attempt, value, waiters, result, fp, results, watch, resps, waits>>
    /\ UNCHANGED storeVars

\* The answers the model lets task i receive: every one of them, except
\* that in the runs that record the history of one task (SpecRetry) the
\* other tasks are not rate-limited.
Answers(i) ==
    IF watch = 0 \/ i = watch
    THEN Responses
    ELSE {r \in Responses : r.status # 429}

\* The answer r to the request in flight of task i arrives.
Respond(i, r) ==
    /\ fp = "running"
    /\ AllStarted
    /\ pc[i] = "request"
    /\ NoteResponse(i, r)
    /\ LET s == fetch_one_step(urls[i], attempt[i], r) IN
       CASE s.op = "continue" ->
              /\ pc' = [pc EXCEPT ![i] = "backoff"]
              /\ NoteSleep(i, s.wait)
              /\ UNCHANGED <<value, waiters, result, attempt>>
         [] s.op = "delay" ->
              /\ pc' = [pc EXCEPT ![i] = "delay"]
              /\ NoteSleep(i, s.wait)
              /\ result' = [result EXCEPT ![i] = s.out]
              /\ attempt' = [attempt EXCEPT ![i] = 0]
              /\ UNCHANGED <<value, waiters>>
         [] s.op = "return" ->
              /\ ReleaseBy(i, "done")
              /\ result' = [result EXCEPT ![i] = s.out]
              /\ attempt' = [attempt EXCEPT ![i] = 0]
              /\ UNCHANGED waits
         [] OTHER ->
              \* the exception leaves `async with`, which releases
              /\ ReleaseBy(i, "raised")
              /\ attempt' = [attempt EXCEPT ![i] = 0]
              /\ UNCHANGED <<result, waits>>
    /\ UNCHANGED <<urls, fp, results, watch, sent>>
    /\ UNCHANGED storeVars

\* asyncio.sleep(wait) of the 429 branch ends: `continue`.
BackoffOver(i) ==
    /\ fp = "running"
    /\ pc[i] = "backoff"
    /\ IF HasNextAttempt(attempt[i])
       THEN /\ attempt' = [attempt EXCEPT ![i] = @ + 1]
            /\ pc' = [pc EXCEPT ![i] = "request"]
            /\ NoteRequest(i)
            /\ UNCHANGED <<value, waiters, result>>
       ELSE /\ result' = [result EXCEPT ![i] = Outcome(urls[i], None, MaxRetriesExceeded)]
            /\ ReleaseBy(i, "done")
            /\ attempt' = [attempt EXCEPT ![i] = 0]
            /\ sent' = sent
    /\ UNCHANGED <<urls, fp, results, watch, resps, waits>>
    /\ UNCHANGED storeVars

\* asyncio.sleep(REQUEST_DELAY) ends: return the fetched page.
DelayOver(i) ==
    /\ fp = "running"
    /\ pc[i] = "delay"
    /\ ReleaseBy(i, "done")
    /\ UNCHANGED <<urls, attempt, result, fp, results, watch, sent, resps, waits>>
    /\ UNCHANGED storeVars

\* `results = await asyncio.gather(*tasks)` and `return list(results)`:
\* gather re-raises the first exception of a task.
Gather ==
    /\ fp = "running"
    /\ \/ \A i \in Tasks : pc[i] = "done"
       \/ \E i \in Tasks : pc[i] = "raised"
    /\ IF \E i \in Tasks : pc[i] = "raised"
       THEN fp' = "raised" /\ results' = results
       ELSE fp' = "returned" /\ results' = [i \in Tasks |-> result[i]]
    /\ UNCHANGED <<urls, pc, attempt, value, waiters, result, watch, sent, resps, waits>>
    /\ UNCHANGED storeVars

(***************************************************************************)
(* Strings.  A Python str is a tuple of characters; where the code only    *)
(* looks at whole words (a host name, a word of a title) the word is one   *)
(* element.                                                                *)
(***************************************************************************)
Whitespace == {" ", "\n", "\t"}

RECURSIVE LStripSet(_, _)
\* str.lstrip(chars)
LStripSet(s, cs) ==
    IF s # <<>> /\ Head(s) \in cs THEN LStripSet(Tail(s), cs) ELSE s

RECURSIVE RStripSet(_, _)
\* str.rstrip(chars)
RStripSet(s, cs) ==
    IF s # <<>> /\ s[Len(s)] \in cs THEN RStripSet(SubSeq(s, 1, Len(s) - 1), cs) ELSE s

\* str.strip()
Strip(s) == LStripSet(RStripSet(s, Whitespace), Whitespace)

\* str.startswith(p)
StartsWith(s, p) == Len(s) >= Len(p) /\ SubSeq(s, 1, Len(p)) = p

\* str.endswith(p)
EndsWith(s, p) == Len(s) >= Len(p) /\ SubSeq(s, Len(s) - Len(p) + 1, Len(s)) = p

\* `p in s`
Contains(s, p) == \E k \in 0..(Len(s) - Len(p)) : SubSeq(s, k + 1, k + Len(p)) = p

RECURSIVE Replace(_, _, _)
\* str.replace(old, new), old not empty
Replace(s, old, new) ==
    IF Len(s) < Len(old) THEN s
    ELSE IF StartsWith(s, old)
         THEN new \o Replace(SubSeq(s, Len(old) + 1, Len(s)), old, new)
         ELSE <<Head(s)>> \o Replace(Tail(s), old, new)

(***************************************************************************)
(* extract_mkdocs_content (scripts/scrape_common.py).  A page is what      *)
(* BeautifulSoup finds in it:                                              *)
(*   h1           text of the first <h1>, "" when there is none            *)
(*   content_el   the content container exists                             *)
(*   content_text its text                                                 *)
(*   sections     the h2/h3/h4 of the container: heading text, level, text *)
(*                of the siblings up to the next heading, id               *)
(*   pres         the <pre> of the container: has a <code>, its text, its  *)
(*                classes, text of the previous p/h2/h3/h4                 *)
(***************************************************************************)
Pilcrow == "¶"

\* the character ` of a code fence
Backtick == "BACKTICK"

\* get_text(strip=True).rstrip("¶").strip()
HeadingText(t) == Strip(RStripSet(Strip(t), {Pilcrow}))

\* Language of a <code> from its classes: the first class that says it.
RECURSIVE LanguageOf(_)
LanguageOf(classes) ==
    IF classes = <<>> THEN <<"text">>
    ELSE IF StartsWith(Head(classes), <<"language-">>)
         THEN Replace(Head(classes), <<"language-">>, <<>>)
    ELSE IF StartsWith(Head(classes), <<"highlight-">>) /\ Len(Head(classes)) > 1
         THEN <<Head(classes)[2]>>
    ELSE LanguageOf(Tail(classes))

HtmlSection(h) ==
    [heading |-> HeadingText(h.heading), level |-> h.level,
     content |-> h.content, anchor |-> h.anchor]

RECURSIVE HtmlCodeExamples_keeps_blank(_)
\* the loop over <pre> without `if not code_text.strip(): continue`
HtmlCodeExamples_keeps_blank(pres) ==
    IF pres = <<>> THEN <<>>
    ELSE LET pre == Head(pres) IN
         IF ~pre.has_code
         THEN HtmlCodeExamples_keeps_blank(Tail(pres))
         ELSE <<[language |-> LanguageOf(pre.classes),
                 code |-> Strip(pre.code),
                 context |-> HeadingText(pre.prev)]>>
              \o HtmlCodeExamples_keeps_blank(Tail(pres))

RECURSIVE HtmlCodeExamples(_)
HtmlCodeExamples(pres) ==
    IF pres = <<>> THEN <<>>
    ELSE LET pre == Head(pres) IN
         IF ~pre.has_code \/ Strip(pre.code) = <<>>
         THEN HtmlCodeExamples(Tail(pres))
         ELSE <<[language |-> LanguageOf(pre.classes),
                 code |-> Strip(pre.code),
                 context |-> HeadingText(pre.prev)]>>
              \o HtmlCodeExamples(Tail(pres))

extract_mkdocs_content(html) ==
    LET title == HeadingText(html.h1) IN
    IF ~html.content_el
    THEN [title |-> title, content_text |-> <<>>, sections |-> <<>>, code_examples |-> <<>>]
    ELSE [title |-> title,
          content_text |-> html.content_text,
          sections |-> [k \in 1..Len(html.sections) |-> HtmlSection(html.sections[k])],
          code_examples |-> HtmlCodeExamples(html.pres)]

(***************************************************************************)
(* The corpus store (SCHEMA_SQL, src/griptape_mcp/db.py), as SQLite runs   *)
(* it on the connections of the scrapers: foreign_keys = ON,               *)
(* recursive_triggers at its default OFF.  The columns content_html,       *)
(* breadcrumbs, last_modified, crawled_at and anchor are stored and never  *)
(* read back by a write or used by a query; they are left out.             *)
(***************************************************************************)
\* NULL in a column of row ids (AUTOINCREMENT ids start at 1).
Null == 0

EmptyStore ==
    [pages |-> {}, sections |-> {}, code_examples |-> {}, nodes |-> {},
     pages_fts |-> {}, sections_fts |-> {},
     seq_pages |-> 0, seq_sections |-> 0, seq_code_examples |-> 0, seq_nodes |-> 0]

PageFts(p) == [rowid |-> p.id, title |-> p.title, content |-> p.content]

SectionFts(x) == [rowid |-> x.id, heading |-> x.heading, content |-> x.content]

\* DELETE of the page row p with the actions of the foreign keys:
\*   sections.page_id, code_examples.page_id  ON DELETE CASCADE
\*   nodes.page_id                            ON DELETE SET NULL
\* The cascaded deletes of sections fire sections_ad.  pages_ad fires when
\* ad says so.
\* The delete of a page row with foreign_keys = OFF: the children stay.
DeletePageRow_no_cascade(d, p, ad) ==
    [d EXCEPT !.pages = @ \ {p},
              !.pages_fts = IF ad THEN @ \ {PageFts(p)} ELSE @]

DeletePageRow(d, p, ad) ==
    LET gone == {x \in d.sections : x.page_id = p.id} IN
    [d EXCEPT
       !.pages = @ \ {p},
       !.sections = @ \ gone,
       !.sections_fts = @ \ {SectionFts(x) : x \in gone},
       !.code_examples = {e \in @ : e.page_id # p.id},
       !.nodes = {IF n.page_id = p.id THEN [n EXCEPT !.page_id = Null] ELSE n : n \in @},
       !.pages_fts = IF ad THEN @ \ {PageFts(p)} ELSE @]

RECURSIVE DeletePageRows(_, _, _)
DeletePageRows(d, ps, ad) ==
    IF ps = {} THEN d
    ELSE LET p == CHOOSE q \in ps : TRUE IN
         DeletePageRows(DeletePageRow(d, p, ad), ps \ {p}, ad)

\* Delete triggers fire for the rows REPLACE removes only with
\* recursive_triggers = ON, which no connection of the program sets.
ReplaceFiresDeleteTriggers == FALSE

\* INSERT OR REPLACE INTO pages (url, source, title, content, ...):
\* the row holding the url, if any, is deleted; the new row gets a fresh
\* AUTOINCREMENT id; pages_ai indexes it.
\* A plain INSERT into a table whose url column is not UNIQUE.
InsertOrReplacePage_no_conflict(d, url, source, title, content) ==
    LET id == d.seq_pages + 1
        row == [id |-> id, url |-> url, source |-> source, title |-> title, content |-> content]
    IN [d EXCEPT !.pages = @ \cup {row},
                 !.pages_fts = @ \cup {PageFts(row)},
                 !.seq_pages = id]

InsertOrReplacePage(d, url, source, title, content) ==
    LET d1 == DeletePageRows(d, {p \in d.pages : p.url = url}, ReplaceFiresDeleteTriggers)
        id == d.seq_pages + 1
        row == [id |-> id, url |-> url, source |-> source, title |-> title, content |-> content]
    IN [d1 EXCEPT !.pages = @ \cup {row},
                  !.pages_fts = @ \cup {PageFts(row)},
                  !.seq_pages = id]

\* cursor.lastrowid after the insert of a page
LastPageId(d) == d.seq_pages

\* INSERT INTO sections (page_id, heading, level, content, anchor); sections_ai
InsertSection(d, page_id, x) ==
    LET id == d.seq_sections + 1
        row == [id |-> id, page_id |-> page_id, heading |-> x.heading,
                level |-> x.level, content |-> x.content]
    IN [d EXCEPT !.sections = @ \cup {row},
                 !.sections_fts = @ \cup {SectionFts(row)},
                 !.seq_sections = id]

RECURSIVE InsertSections(_, _, _)
InsertSections(d, page_id, xs) ==
    IF xs = <<>> THEN d
    ELSE InsertSections(InsertSection(d, page_id, Head(xs)), page_id, Tail(xs))

\* SELECT id FROM sections WHERE page_id = ? AND heading = ? LIMIT 1
SectionIdFor(d, page_id, context) ==
    LET hits == {x.id : x \in {y \in d.sections : y.page_id = page_id /\ y.heading = context}} IN
    IF context = <<>> \/ hits = {} THEN Null
    ELSE CHOOSE m \in hits : \A k \in hits : m <= k

\* INSERT INTO code_examples (page_id, section_id, language, code, context)
InsertCodeExample(d, page_id, ex) ==
    LET id == d.seq_code_examples + 1
        row == [id |-> id, page_id |-> page_id,
                section_id |-> SectionIdFor(d, page_id, ex.context),
                language |-> ex.language, code |-> ex.code, context |-> ex.context]
    IN [d EXCEPT !.code_examples = @ \cup {row}, !.seq_code_examples = id]

RECURSIVE InsertCodeExamples(_, _, _)
InsertCodeExamples(d, page_id, exs) ==
    IF exs = <<>> THEN d
    ELSE InsertCodeExamples(InsertCodeExample(d, page_id, Head(exs)), page_id, Tail(exs))

\* INSERT INTO nodes (name, display_name, category, description, page_id)
InsertNode(d, page_id, info, description) ==
    LET id == d.seq_nodes + 1
        row == [id |-> id, name |-> info.name, display_name |-> info.display_name,
                category |-> info.category, description |-> description,
                page_id |-> page_id]
    IN [d EXCEPT !.nodes = @ \cup {row}, !.seq_nodes = id]

\* The body of the `try` of one iteration of the loop of a scraper: the page,
\* its sections, its code examples and, for a node page, its node.  info is
\* the result of extract_node_info: <<>> for None, else <<the dict>>.
WritePage(d, url, source, data, info) ==
    LET d1 == InsertOrReplacePage(d, url, source, data.title, data.content_text)
        id == LastPageId(d1)
        d2 == InsertSections(d1, id, data.sections)
        d3 == InsertCodeExamples(d2, id, data.code_examples)
        \* data["content_text"][:500] if data["content_text"] else None
        description == IF data.content_text = <<>> THEN None
                       ELSE IF Len(data.content_text) > 500
                            THEN SubSeq(data.content_text, 1, 500)
                       ELSE data.content_text
    IN IF info = <<>> THEN d3 ELSE InsertNode(d3, id, info[1], description)

(***************************************************************************)
(* fetch_one run to its end, for a URL whose successive requests get the   *)
(* answers of `answers` (the last one repeated if more are asked).  The    *)
(* result is the list fetch_pages makes of it: one dict, or nothing when   *)
(* an exception left fetch_one.                                            *)
(***************************************************************************)
RECURSIVE fetch_one(_, _, _)
fetch_one(u, a, answers) ==
    LET r == answers[IF a + 1 <= Len(answers) THEN a + 1 ELSE Len(answers)]
        s == fetch_one_step(u, a, r)
    IN CASE s.op = "continue" ->
              IF HasNextAttempt(a) /\ a < 2 * MAX_RETRIES
              THEN fetch_one(u, a + 1, answers)
              ELSE <<Outcome(u, None, MaxRetriesExceeded)>>
         [] s.op \in {"delay", "return"} -> <<s.out>>
         [] OTHER -> <<>>

\* The class of the answer that ended the fetch.
RECURSIVE LastClass(_, _)
LastClass(a, answers) ==
    IF a + 1 >= Len(answers) \/ Class(answers[a + 1]) # "429"
    THEN Class(answers[IF a + 1 <= Len(answers) THEN a + 1 ELSE Len(answers)])
    ELSE LastClass(a + 1, answers)

(***************************************************************************)
(* The documents the sites serve.                                          *)
(***************************************************************************)
DocAgents ==
    [h1 |-> <<"Agents", Pilcrow>>, content_el |-> TRUE,
     content_text |-> <<"agents", " ", "guide">>,
     sections |-> <<[heading |-> <<"Setup", Pilcrow>>, level |-> 2,
                     content |-> <<"install">>, anchor |-> <<"setup">>]>>,
     pres |-> <<[has_code |-> TRUE, code |-> <<"print(1)", "\n">>,
                 classes |-> <<<<"language-", "python">>>>, prev |-> <<"Setup", Pilcrow>>],
                [has_code |-> TRUE, code |-> <<" ", "\n">>,
                 classes |-> <<>>, prev |-> <<"Setup", Pilcrow>>]>>]

DocTools ==
    [h1 |-> <<"Tools">>, content_el |-> TRUE,
     content_text |-> <<"tools", " ", "guide">>,
     sections |-> <<[heading |-> <<"Usage">>, level |-> 2,
                     content |-> <<"call">>, anchor |-> <<"usage">>],
                    [heading |-> <<"Setup">>, level |-> 3,
                     content |-> <<"configure">>, anchor |-> <<"setup">>]>>,
     pres |-> <<>>]

\* A page whose <h1> holds only the anchor glyph: no title.
DocUntitled ==
    [h1 |-> <<" ", Pilcrow>>, content_el |-> TRUE,
     content_text |-> <<"changelog">>,
     sections |-> <<[heading |-> <<"Usage">>, level |-> 2,
                     content |-> <<"call">>, anchor |-> <<"usage">>]>>,
     pres |-> <<>>]

HtmlDocs == {DocAgents, DocTools, DocUntitled}

\* resp.text of a page holding document d
Html(d) == <<"html", d>>

Throttled(r) == <<TooManyRequests, r>>

\* What a site answers to the requests for one URL.
Scripts ==
    {<<NetworkError>>, <<ServerError>>, [k \in 1..MAX_RETRIES |-> TooManyRequests]}
    \cup {<<Response(FALSE, 200, 0, MAX_RESPONSE_SIZE, Html(d))>> : d \in HtmlDocs}
    \cup {<<r>> : r \in Pages(Html(DocAgents))}
    \cup {Throttled(Response(FALSE, 200, 0, MAX_RESPONSE_SIZE, Html(DocTools)))}

(***************************************************************************)
(* URLs, as the scrapers look at them: host, "/" and path segments.        *)
(***************************************************************************)
FrameworkHost == "https://docs.griptape.ai"

FwAgents == <<FrameworkHost, "/", "stable", "/", "framework", "/", "agents", "/">>

FwReference == <<FrameworkHost, "/", "stable", "/", "reference", "/", "x">>

FrameworkUrls == {FwAgents, FwReference}

\* scrape_framework.SKIP_PATTERNS
FW_SKIP_PATTERNS == {<<"/", "reference", "/">>, <<"/", "search.html">>, <<"/", "404.html">>}

\* should_skip that skips nothing
fw_should_skip_nothing(url) == FALSE

\* scrape_framework.should_skip
fw_should_skip(url) == \E pat \in FW_SKIP_PATTERNS : Contains(url, pat)

BASE_URL == "https://docs.griptapenodes.com"

STABLE_PREFIX == <<"/", "en", "/", "stable", "/">>

NodeLoadImage ==
    <<BASE_URL, "/", "en", "/", "stable", "/", "nodes", "/", "image", "/", "load", "_", "image", "/">>

\* the same page, listed without the version prefix
NodeLoadImageBare ==
    <<BASE_URL, "/", "nodes", "/", "image", "/", "load", "_", "image", "/">>

NodeFaq == <<BASE_URL, "/", "en", "/", "stable", "/", "faq", "/">>

\* a node page under a category slug that CATEGORY_MAP does not hold
NodeCustom ==
    <<BASE_URL, "/", "en", "/", "stable", "/", "nodes", "/", "custom", "_", "nodes", "/", "overview", "/">>

NodeUrls == {NodeLoadImage, NodeLoadImageBare, NodeFaq, NodeCustom}

\* scrape_nodes.SKIP_PATTERNS
NODES_SKIP_PATTERNS == {<<"/", "search.html">>, <<"/", "404.html">>}

\* scrape_nodes.should_skip
nodes_should_skip(url) == \E pat \in NODES_SKIP_PATTERNS : Contains(url, pat)

\* normalize_url that returns its argument
normalize_url_identity(url) == url

\* scrape_nodes.scrape.normalize_url; urlparse(url).path is what follows the host
normalize_url(url) ==
    LET path == Tail(url) IN
    IF StartsWith(path, STABLE_PREFIX)
    THEN <<BASE_URL>> \o path
    ELSE <<BASE_URL>> \o STABLE_PREFIX \o LStripSet(path, {"/"})

RECURSIVE Dedup(_, _)
\* list(dict.fromkeys(urls)): first occurrences, in order
Dedup(xs, seen) ==
    IF xs = <<>> THEN <<>>
    ELSE IF Head(xs) \in seen THEN Dedup(Tail(xs), seen)
    ELSE <<Head(xs)>> \o Dedup(Tail(xs), seen \cup {Head(xs)})

\* The characters of \w, as far as words are elements: everything but these.
NonWord == {"/", " ", "\n", "\t", ".md", "#", Backtick, Pilcrow, FrameworkHost, BASE_URL}

RECURSIVE WordRun(_)
\* the longest run of \w at the end of s
WordRun(s) ==
    IF s = <<>> \/ s[Len(s)] \in NonWord THEN <<>>
    ELSE WordRun(SubSeq(s, 1, Len(s) - 1)) \o <<s[Len(s)]>>

\* CATEGORY_MAP of scrape_nodes
CATEGORY_MAP_WEB ==
    (<<"agents">> :> <<"Agents">>) @@ (<<"audio">> :> <<"Audio">>)
    @@ (<<"config">> :> <<"Config">>) @@ (<<"convert">> :> <<"Convert">>)
    @@ (<<"dict">> :> <<"Dict">>) @@ (<<"execution">> :> <<"Execution">>)
    @@ (<<"image">> :> <<"Image">>) @@ (<<"json">> :> <<"JSON">>)
    @@ (<<"lists">> :> <<"Lists">>) @@ (<<"misc">> :> <<"Misc">>)
    @@ (<<"number">> :> <<"Number">>) @@ (<<"rules">> :> <<"Rules">>)
    @@ (<<"text">> :> <<"Text">>) @@ (<<"three", "_", "d">> :> <<"3D">>)
    @@ (<<"tools">> :> <<"Tools">>) @@ (<<"video">> :> <<"Video">>)
    @@ (<<"advanced", "_", "media", "_", "library">> :> <<"Advanced", " ", "Media", " ", "Library">>)

\* str.title() on the words of the model
Capitalized ==
    ("load" :> "Load") @@ ("image" :> "Image") @@ ("overview" :> "Overview")
    @@ ("custom" :> "Custom") @@ ("nodes" :> "Nodes") @@ ("index" :> "Index")
    @@ ("faq" :> "Faq") @@ ("readme" :> "Readme")

Title(s) == [k \in 1..Len(s) |-> IF s[k] \in DOMAIN Capitalized THEN Capitalized[s[k]] ELSE s[k]]

\* category_slug.replace("_", " ").title()
Humanize(slug) == Title(Replace(slug, <<"_">>, <<" ">>))

\* The two groups of re.search(prefix + r"(\w+)/(\w+)" + tail + "$", s),
\* <<>> when there is no match; tail may be absent when it is optional.
NodeMatch(s, prefix, tail, optional) ==
    LET t == IF EndsWith(s, tail) THEN SubSeq(s, 1, Len(s) - Len(tail))
             ELSE s
        name == WordRun(t)
        t2 == SubSeq(t, 1, Len(t) - Len(name) - 1)
        slug == WordRun(t2)
        t3 == SubSeq(t2, 1, Len(t2) - Len(slug))
    IN IF /\ (optional \/ EndsWith(s, tail))
          /\ name # <<>>
          /\ Len(t) > Len(name) /\ t[Len(t) - Len(name)] = "/"
          /\ slug # <<>>
          /\ EndsWith(t3, prefix)
       THEN <<slug, name>>
       ELSE <<>>

\* scrape_nodes.extract_node_info: <<>> for None
web_extract_node_info(url, title) ==
    LET m == NodeMatch(url, <<"/", "nodes", "/">>, <<"/">>, TRUE) IN
    IF m = <<>> THEN <<>>
    ELSE <<[name |-> title, display_name |-> title,
            category |-> IF m[1] \in DOMAIN CATEGORY_MAP_WEB
                         THEN CATEGORY_MAP_WEB[m[1]] ELSE Humanize(m[1])]>>

(***************************************************************************)
(* The scrapers.  A run: the sitemap gives the URLs, fetch_pages the       *)
(* outcomes (one task after the other ends), then the loop handles the     *)
(* outcomes in order, then commit and return of the stats.                 *)
(***************************************************************************)
MaxSitemap == 2

MaxWrites == 2

NoStats == [pages |-> 0, sections |-> 0, code_examples |-> 0, nodes |-> 0, errors |-> 0]

\* sitemap records what the sitemap listed (not program state).
IdleRun ==
    [scraper |-> "none", phase |-> "idle", sitemap |-> <<>>, urls |-> <<>>, pages |-> <<>>,
     stats |-> NoStats]

NoPage == [scraper |-> "none", url |-> None, class |-> "none", wrote |-> FALSE]

\* The process has not exited.
NoExit == -1

\* No build in progress: the scrapers are run as scripts.  log, web and
\* fallback record what build did and got (not program state).
NoBuild ==
    [pc |-> "none", file |-> "present", log |-> <<>>, fw_stats |-> NoStats,
     web |-> [raised |-> FALSE, stats |-> NoStats],
     fallback |-> [returned |-> FALSE, stats |-> NoStats], nodes_stats |-> NoStats,
     totals |-> NoStats, success |-> FALSE, exit |-> NoExit]

\* No call of the query layer.
NoAsk ==
    [fn |-> "none", pc |-> "none", arg |-> [text |-> <<>>, opt |-> <<>>, order |-> "asc"],
     limit |-> 0, out |-> <<>>]

InitStore ==
    /\ db = EmptyStore
    /\ run = IdleRun
    /\ last = NoPage
    /\ written = {}
    /\ build = NoBuild
    /\ ask = NoAsk

Sitemaps(U) == UNION {[1..n -> U] : n \in 0..MaxSitemap}

\* The answer of a site to the request for its sitemap.xml listing entries.
SitemapOk(entries) == Response(FALSE, 200, 0, Len(entries), entries)

\* fetch_sitemap, the successive requests getting the answers of `answers`
\* (the last one repeated): the entries, or an exception, and the sleeps.
RECURSIVE fetch_sitemap(_, _, _)
fetch_sitemap(a, answers, slept) ==
    LET r == answers[IF a + 1 <= Len(answers) THEN a + 1 ELSE Len(answers)] IN
    IF r.exc THEN [ok |-> FALSE, entries |-> <<>>, waits |-> slept]
    ELSE IF r.status = 429
    THEN IF a + 1 < MAX_RETRIES
         THEN fetch_sitemap(a + 1, answers, Append(slept, Backoff(a)))
         ELSE [ok |-> FALSE, entries |-> <<>>, waits |-> Append(slept, Backoff(a))]
    ELSE IF RaisesForStatus(r) THEN [ok |-> FALSE, entries |-> <<>>, waits |-> slept]
    ELSE [ok |-> TRUE, entries |-> r.text, waits |-> slept]

\* The ways a sitemap request can go for a site serving the URLs of U.
SitemapAnswers(U, listings) ==
    {<<NetworkError>>, <<ServerError>>, [k \in 1..MAX_RETRIES |-> TooManyRequests]}
    \cup {<<SitemapOk(e)>> : e \in listings}
    \cup {<<TooManyRequests, SitemapOk(<<u>>)>> : u \in U}

\* What fetch_sitemap can return for each site, and list_github_files.
FrameworkSitemaps == Sitemaps(FrameworkUrls)

NodeSitemaps == Sitemaps(NodeUrls)

FrameworkSitemapAnswers == SitemapAnswers(FrameworkUrls, FrameworkSitemaps)

NodeSitemapAnswers == SitemapAnswers(NodeUrls, NodeSitemaps)

\* scraper s can be entered: as a script whenever no run is in progress,
\* inside a build when build awaits it.
Called(s) ==
    IF build.pc = "none" THEN run.phase \in {"idle", "returned", "raised"}
    ELSE /\ build.pc = s \/ (s = "github" /\ build.pc = "github_except")
         /\ run.phase = "idle"

CanStart(us) == db.seq_pages + Len(us) <= MaxWrites

\* An exception leaves the scraper before it fetched a page.
Raise(scraper) ==
    /\ run' = [IdleRun EXCEPT !.scraper = scraper, !.phase = "raised"]
    /\ last' = NoPage

Begin(scraper, us, listed) ==
    /\ run' = [scraper |-> scraper, phase |-> "fetching", sitemap |-> listed, urls |-> us,
               pages |-> <<>>, stats |-> NoStats]
    /\ last' = NoPage

\* scrape_framework.scrape up to the call of fetch_pages
framework_urls(answers) ==
    LET got == fetch_sitemap(0, answers, <<>>) IN
    [ok |-> got.ok, listed |-> got.entries,
     urls |-> SelectSeq(got.entries, LAMBDA e : ~fw_should_skip(e))]

\* The outcomes of the lines before fetch_pages, over the answers of the site.
FrameworkStarts == {framework_urls(answers) : answers \in FrameworkSitemapAnswers}

StartFramework(st) ==
    /\ Called("framework")
    /\ IF st.ok THEN CanStart(st.urls) /\ Begin("framework", st.urls, st.listed) ELSE Raise("framework")
    /\ UNCHANGED <<db, written>>
    /\ UNCHANGED <<fetchVars, histVars, build, ask>>

\* scrape_nodes.scrape up to the call of fetch_pages
nodes_urls(answers) ==
    LET got == fetch_sitemap(0, answers, <<>>)
        kept == SelectSeq(got.entries, LAMBDA e : ~nodes_should_skip(e))
    IN [ok |-> got.ok, listed |-> got.entries,
        urls |-> Dedup([k \in 1..Len(kept) |-> normalize_url(kept[k])], {})]

NodeStarts == {nodes_urls(answers) : answers \in NodeSitemapAnswers}

StartNodes(st) ==
    /\ Called("nodes")
    /\ IF st.ok THEN CanStart(st.urls) /\ Begin("nodes", st.urls, st.listed) ELSE Raise("nodes")
    /\ UNCHANGED <<db, written>>
    /\ UNCHANGED <<fetchVars, histVars, build, ask>>

\* fetch_pages: the task of the next URL ends.  An exception leaving
\* fetch_one leaves fetch_pages and the scraper.
FetchPage(answers) ==
    /\ run.phase = "fetching"
    /\ run.scraper \in {"framework", "nodes"}
    /\ Len(run.pages) < Len(run.urls)
    /\ LET u == run.urls[Len(run.pages) + 1]
           got == fetch_one(u, 0, answers)
       IN run' = IF got = <<>>
                 THEN [run EXCEPT !.phase = "raised"]
                 ELSE [run EXCEPT !.pages = Append(@, [out |-> got[1],
                                                        class |-> LastClass(0, answers)])]
    /\ UNCHANGED <<db, last, written>>
    /\ UNCHANGED <<fetchVars, histVars, build, ask>>

\* `pages = await fetch_pages(urls)` returns
Fetched ==
    /\ run.phase = "fetching"
    /\ Len(run.pages) = Len(run.urls)
    /\ run' = [run EXCEPT !.phase = "writing"]
    /\ UNCHANGED <<db, last, written>>
    /\ UNCHANGED <<fetchVars, histVars, build, ask>>

\* The record of a write of url: what was handed to the INSERTs.
NoteWrite(url, data) ==
    {w \in written : w.url # url}
    \cup {[url |-> url, title |-> data.title, content |-> data.content_text,
           sections |-> [k \in 1..Len(data.sections) |->
                           [heading |-> data.sections[k].heading,
                            level |-> data.sections[k].level,
                            content |-> data.sections[k].content]],
           code_examples |-> data.code_examples]}

Count(st, data, info) ==
    [st EXCEPT !.pages = @ + 1,
               !.sections = @ + Len(data.sections),
               !.code_examples = @ + Len(data.code_examples),
               !.nodes = @ + Len(info)]

\* One iteration of `for page in pages` of scrape_framework / scrape_nodes.
HtmlPage ==
    /\ run.phase = "writing"
    /\ run.scraper \in {"framework", "nodes"}
    /\ run.pages # <<>>
    /\ LET page == Head(run.pages).out
           data == extract_mkdocs_content(page.html[2])
           info == IF run.scraper = "nodes"
                   THEN web_extract_node_info(page.url, data.title) ELSE <<>>
           seen == [scraper |-> run.scraper, url |-> page.url,
                    class |-> Head(run.pages).class, wrote |-> FALSE]
       IN IF page.error # None
          THEN /\ run' = [run EXCEPT !.pages = Tail(@), !.stats.errors = @ + 1]
               /\ last' = seen
               /\ UNCHANGED <<db, written>>
          ELSE IF data.title = <<>>
          THEN /\ run' = [run EXCEPT !.pages = Tail(@)]
               /\ last' = seen
               /\ UNCHANGED <<db, written>>
          ELSE /\ db' = WritePage(db, page.url, run.scraper, data, info)
               /\ run' = [run EXCEPT !.pages = Tail(@), !.stats = Count(@, data, info)]
               /\ last' = [seen EXCEPT !.wrote = TRUE]
               /\ written' = NoteWrite(page.url, data)
    /\ UNCHANGED <<fetchVars, histVars, build, ask>>

(***************************************************************************)
(* scrape_nodes_github: parse_markdown.                                    *)
(***************************************************************************)
RECURSIVE Split(_, _)
\* str.split(sep), sep one character
Split(s, sep) ==
    IF \A k \in 1..Len(s) : s[k] # sep THEN <<s>>
    ELSE LET k == CHOOSE m \in 1..Len(s) : s[m] = sep /\ \A n \in 1..(m - 1) : s[n] # sep
         IN <<SubSeq(s, 1, k - 1)>> \o Split(SubSeq(s, k + 1, Len(s)), sep)

RECURSIVE Join(_, _)
\* sep.join(parts)
Join(parts, sep) ==
    IF parts = <<>> THEN <<>>
    ELSE IF Len(parts) = 1 THEN parts[1]
    ELSE parts[1] \o <<sep>> \o Join(Tail(parts), sep)

RECURSIVE CountLeading(_, _)
\* number of characters of cs s starts with
CountLeading(s, cs) ==
    IF s # <<>> /\ Head(s) \in cs THEN 1 + CountLeading(Tail(s), cs) ELSE 0

\* s.split()[0], s stripped and not empty
FirstToken(s) ==
    LET n == CountLeading(s, {c \in {s[k] : k \in 1..Len(s)} : c \notin Whitespace})
    IN SubSeq(s, 1, n)

Fence == <<Backtick, Backtick, Backtick>>

\* re.match(r"^(#{1,4})\s+(.+)", line): <<>> or <<level, heading_text>>
HeadingMatch(line) ==
    LET n == CountLeading(line, {"#"})
        rest == SubSeq(line, n + 1, Len(line))
        w == CountLeading(rest, Whitespace)
        text == SubSeq(rest, w + 1, Len(rest))
    IN IF n >= 1 /\ n <= 4 /\ w >= 1 /\ (text # <<>> \/ w >= 2)
       THEN <<n, Strip(text)>>
       ELSE <<>>

\* The locals of parse_markdown before the loop.
ParseStart ==
    [title |-> <<>>, sections |-> <<>>, code_examples |-> <<>>, has_section |-> FALSE,
     in_code_block |-> FALSE, code_lang |-> <<>>, code_lines |-> <<>>, text_parts |-> <<>>]

\* current_section["content"] = "\n".join(text_parts).strip()
CloseSection(st) ==
    IF st.has_section /\ st.text_parts # <<>>
    THEN [st.sections EXCEPT ![Len(st.sections)].content = Strip(Join(st.text_parts, "\n"))]
    ELSE st.sections

\* One iteration of `for line in lines`.
ParseLine(st, line) ==
    IF StartsWith(line, Fence)
    THEN IF st.in_code_block
         THEN LET code_text == Join(st.code_lines, "\n")
                  ex == [language |-> IF st.code_lang # <<>> THEN st.code_lang ELSE <<"python">>,
                         code |-> code_text,
                         context |-> IF st.has_section
                                     THEN st.sections[Len(st.sections)].heading ELSE <<>>]
              IN [st EXCEPT !.code_examples = IF Strip(code_text) # <<>> THEN Append(@, ex) ELSE @,
                            !.code_lines = <<>>,
                            !.in_code_block = FALSE]
         ELSE LET rest == Strip(LStripSet(line, {Backtick})) IN
              [st EXCEPT !.in_code_block = TRUE,
                         !.code_lang = IF rest # <<>> THEN FirstToken(rest) ELSE <<"python">>]
    ELSE IF st.in_code_block
    THEN [st EXCEPT !.code_lines = Append(@, line)]
    ELSE LET m == HeadingMatch(line) IN
         IF m = <<>>
         THEN [st EXCEPT !.text_parts = Append(@, line)]
         ELSE IF m[1] = 1 /\ st.title = <<>>
         THEN [st EXCEPT !.title = m[2]]
         ELSE [st EXCEPT !.sections = Append(CloseSection(st),
                                             [heading |-> m[2], level |-> m[1], content |-> <<>>]),
                         !.has_section = TRUE,
                         !.text_parts = <<>>]

RECURSIVE ParseLines(_, _)
ParseLines(st, lines) ==
    IF lines = <<>> THEN st ELSE ParseLines(ParseLine(st, Head(lines)), Tail(lines))

parse_markdown(content) ==
    LET st == ParseLines(ParseStart, Split(content, "\n")) IN
    [title |-> st.title, content_text |-> content,
     sections |-> CloseSection(st), code_examples |-> st.code_examples]

(***************************************************************************)
(* scrape_nodes_github: files, URLs, nodes.                                *)
(***************************************************************************)
BASE_DOCS_URL == <<BASE_URL, "/", "en", "/", "stable">>

\* path_to_docs_url
path_to_docs_url(file_path) ==
    LET rel == Replace(Replace(file_path, <<"docs", "/">>, <<>>), <<".md">>, <<>>) IN
    IF rel = <<"index">> THEN BASE_DOCS_URL \o <<"/">>
    ELSE BASE_DOCS_URL \o <<"/">> \o rel \o <<"/">>

\* CATEGORY_MAP of scrape_nodes_github
CATEGORY_MAP_GITHUB == CATEGORY_MAP_WEB @@ (<<"workflows">> :> <<"Workflows">>)

\* extract_node_info without `if category_slug == "overview": return None`
github_extract_node_info_keeps_overview(file_path, title) ==
    LET m == NodeMatch(file_path, <<"docs", "/", "nodes", "/">>, <<".md">>, FALSE) IN
    IF m = <<>> THEN <<>>
    ELSE LET name == IF title # <<>> THEN title ELSE Humanize(m[2]) IN
         <<[name |-> name, display_name |-> name,
            category |-> IF m[1] \in DOMAIN CATEGORY_MAP_GITHUB
                         THEN CATEGORY_MAP_GITHUB[m[1]] ELSE Humanize(m[1])]>>

\* scrape_nodes_github.extract_node_info: <<>> for None
github_extract_node_info(file_path, title) ==
    LET m == NodeMatch(file_path, <<"docs", "/", "nodes", "/">>, <<".md">>, FALSE) IN
    IF m = <<>> \/ m[1] = <<"overview">> THEN <<>>
    ELSE LET name == IF title # <<>> THEN title ELSE Humanize(m[2]) IN
         <<[name |-> name, display_name |-> name,
            category |-> IF m[1] \in DOMAIN CATEGORY_MAP_GITHUB
                         THEN CATEGORY_MAP_GITHUB[m[1]] ELSE Humanize(m[1])]>>

\* result["name"].replace(".md", "").replace("_", " ").title()
FilenameTitle(name) == Title(Replace(Replace(name, <<".md">>, <<>>), <<"_">>, <<" ">>))

\* An entry of md_files: a file of the repository whose name ends in .md.
MdFile(dir, name) == [path |-> dir \o name, name |-> name]

GhLoadImage == MdFile(<<"docs", "/", "nodes", "/", "image", "/">>, <<"load", "_", "image", ".md">>)

GhFaq == MdFile(<<"docs", "/">>, <<"faq", ".md">>)

\* a file whose name is its extension
GhDotMd == MdFile(<<"docs", "/", "nodes", "/">>, <<".md">>)

\* the index of the overview directory
GhOverview == MdFile(<<"docs", "/", "nodes", "/", "overview", "/">>, <<"index", ".md">>)

\* a node file under a category slug that CATEGORY_MAP does not hold
GhCustom == MdFile(<<"docs", "/", "nodes", "/", "custom", "_", "nodes", "/">>, <<"load", "_", "image", ".md">>)

GithubFiles ==
    {f \in {GhLoadImage, GhFaq, GhDotMd, GhOverview, GhCustom} : EndsWith(f.name, <<".md">>)}

MdTitled ==
    <<"#", " ", "Title", "\n", "#", "#", " ", "Setup", "\n", "text", "\n",
      Backtick, Backtick, Backtick, "python", "\n", "print(1)", "\n",
      Backtick, Backtick, Backtick>>

\* no level-1 heading
MdUntitled == <<"#", "#", " ", "Setup", "\n", "text">>

\* a block of whitespace, then a block of code after a fence naming no language
MdBlankCode ==
    <<"#", " ", "Title", "\n", Backtick, Backtick, Backtick, "\n", " ", "\n",
      Backtick, Backtick, Backtick, "\n", Backtick, Backtick, Backtick, "\n",
      "print(1)", "\n", Backtick, Backtick, Backtick>>

Markdowns == {MdTitled, MdUntitled, MdBlankCode}

\* What list_github_files returns: a directory lists each of its files once.
GithubListings ==
    {fs \in Sitemaps(GithubFiles) : \A i, j \in 1..Len(fs) : fs[i] = fs[j] => i = j}

\* What raw.githubusercontent.com answers to the request for one file.
GithubAnswers ==
    {NetworkError, ServerError} \cup {Response(FALSE, 200, 0, Len(m), m) : m \in Markdowns}

\* fetch_one of scrape_nodes_github.scrape
github_fetch_one(f, r) ==
    IF r.exc
    THEN [path |-> f.path, name |-> f.name, content |-> None, error |-> <<"ConnectError">>]
    ELSE IF RaisesForStatus(r)
    THEN [path |-> f.path, name |-> f.name, content |-> None,
          error |-> <<"HTTPStatusError", r.status>>]
    ELSE [path |-> f.path, name |-> f.name, content |-> r.text, error |-> None]

\* The answers of the GitHub contents API to the request for docs/.
GithubListingAnswers ==
    {NetworkError, ServerError}
    \cup {Response(FALSE, 200, 0, Len(fs), fs) : fs \in GithubListings}

\* list_github_files for a directory without subdirectories: the .md files
\* listed, nothing when the answer is not 200, or an exception.
list_github_files(r) ==
    IF r.exc THEN [ok |-> FALSE, files |-> <<>>]
    ELSE IF r.status # 200 THEN [ok |-> TRUE, files |-> <<>>]
    ELSE [ok |-> TRUE, files |-> SelectSeq(r.text, LAMBDA f : EndsWith(f.name, <<".md">>))]

GithubStarts == {list_github_files(r) : r \in GithubListingAnswers}

\* scrape_nodes_github.scrape up to the fetches
StartGithub(got) ==
    /\ Called("github")
    /\ IF got.ok THEN CanStart(got.files) /\ Begin("github", got.files, <<>>) ELSE Raise("github")
    /\ UNCHANGED <<db, written>>
    /\ UNCHANGED <<fetchVars, histVars, build, ask>>

\* The task of the next file ends.
FetchFile(r) ==
    /\ run.phase = "fetching"
    /\ run.scraper = "github"
    /\ Len(run.pages) < Len(run.urls)
    /\ run' = [run EXCEPT !.pages = Append(@, [out |-> github_fetch_one(run.urls[Len(run.pages) + 1], r),
                                                class |-> Class(r)])]
    /\ UNCHANGED <<db, last, written>>
    /\ UNCHANGED <<fetchVars, histVars, build, ask>>

\* One iteration of `for result in results` of scrape_nodes_github.scrape.
GithubPage ==
    /\ run.phase = "writing"
    /\ run.scraper = "github"
    /\ run.pages # <<>>
    /\ LET res == Head(run.pages).out
           parsed == parse_markdown(res.content)
           data == IF parsed.title = <<>>
                   THEN [parsed EXCEPT !.title = FilenameTitle(res.name)]
                   ELSE parsed
           url == path_to_docs_url(res.path)
           info == github_extract_node_info(res.path, data.title)
           seen == [scraper |-> "github", url |-> url,
                    class |-> Head(run.pages).class, wrote |-> FALSE]
       IN IF res.error # None
          THEN /\ run' = [run EXCEPT !.pages = Tail(@), !.stats.errors = @ + 1]
               /\ last' = seen
               /\ UNCHANGED <<db, written>>
          ELSE /\ db' = WritePage(db, url, "nodes", data, info)
               /\ run' = [run EXCEPT !.pages = Tail(@), !.stats = Count(@, data, info)]
               /\ last' = [seen EXCEPT !.wrote = TRUE]
               /\ written' = NoteWrite(url, data)
    /\ UNCHANGED <<fetchVars, histVars, build, ask>>

\* conn.commit(); conn.close(); return stats
Return ==
    /\ run.phase = "writing"
    /\ run.pages = <<>>
    /\ run' = [run EXCEPT !.phase = "returned", !.sitemap = <<>>, !.urls = <<>>]
    /\ last' = NoPage
    /\ UNCHANGED <<db, written>>
    /\ UNCHANGED <<fetchVars, histVars, build, ask>>

NextStore ==
    \/ \E st \in FrameworkStarts : StartFramework(st)
    \/ \E st \in NodeStarts : StartNodes(st)
    \/ \E answers \in Scripts : FetchPage(answers)
    \/ \E got \in GithubStarts : StartGithub(got)
    \/ \E r \in GithubAnswers : FetchFile(r)
    \/ Fetched
    \/ HtmlPage
    \/ GithubPage
    \/ Return

\* DELETE FROM pages WHERE id = ?, between two runs: the foreign keys and
\* the triggers of the schema act.
DeletePage(p) ==
    /\ run.phase \in {"idle", "returned"}
    /\ p \in db.pages
    /\ db' = DeletePageRow(db, p, TRUE)
    /\ written' = {w \in written : w.url # p.url}
    /\ UNCHANGED <<run, last>>
    /\ UNCHANGED <<fetchVars, histVars, build, ask>>

NextSchema ==
    \/ NextStore
    \/ \E p \in db.pages : DeletePage(p)

(***************************************************************************)
(* build_db.build and its command line.  build.log lists what build has    *)
(* done and called so far (not program state).                             *)
(***************************************************************************)
\* `python build_db.py`: build up to the removal of the old database.
BuildBegin ==
    /\ build.pc \in {"start", "returned", "raised"}
    /\ build' = [NoBuild EXCEPT !.pc = "init", !.file = "absent",
                                !.log = IF build.file = "present" THEN <<"remove">> ELSE <<>>]
    /\ db' = EmptyStore
    /\ written' = {}
    /\ run' = IdleRun
    /\ last' = NoPage
    /\ UNCHANGED <<fetchVars, histVars, ask>>

\* init_db(output_path), then the call of scrape_framework
InitDb ==
    /\ build.pc = "init"
    /\ build' = [build EXCEPT !.pc = "framework", !.file = "present",
                              !.log = @ \o <<"init", "framework">>]
    /\ UNCHANGED <<db, written, run, last, fetchVars, histVars, ask>>

\* An exception that no `try` of build encloses ends build and the process.
Abort == [build EXCEPT !.pc = "raised", !.exit = 1]

\* scrape_framework is over: its stats, then the call of scrape_nodes.
FrameworkEnds ==
    /\ build.pc = "framework"
    /\ run.phase \in {"returned", "raised"}
    /\ build' = IF run.phase = "raised" THEN Abort
                ELSE [build EXCEPT !.pc = "nodes", !.fw_stats = run.stats,
                                   !.log = Append(@, "nodes")]
    /\ run' = IdleRun
    /\ UNCHANGED <<db, written, last, fetchVars, histVars, ask>>

\* The fallback taken also when the errors equal the pages.
TooManyErrors_or_equal(stats) == stats.errors >= stats.pages

\* nodes_stats["errors"] > nodes_stats["pages"]
TooManyErrors(stats) == stats.errors > stats.pages

\* scrape_nodes is over: the fallback is called from the `try` when the
\* errors outnumber the pages, from the `except` when it raised.
NodesEnds ==
    /\ build.pc = "nodes"
    /\ run.phase \in {"returned", "raised"}
    /\ build' = IF run.phase = "raised"
                THEN [build EXCEPT !.pc = "github_except", !.web.raised = TRUE,
                                   !.log = Append(@, "github")]
                ELSE IF TooManyErrors(run.stats)
                THEN [build EXCEPT !.pc = "github", !.web.stats = run.stats,
                                   !.nodes_stats = run.stats,
                                   !.log = Append(@, "github")]
                ELSE [build EXCEPT !.pc = "summary", !.web.stats = run.stats,
                                   !.nodes_stats = run.stats]
    /\ run' = IdleRun
    /\ UNCHANGED <<db, written, last, fetchVars, histVars, ask>>

\* scrape_nodes_github is over.  Raised inside the `try`, its exception is
\* caught by the `except`, which calls it again.
GithubEnds ==
    /\ build.pc \in {"github", "github_except"}
    /\ run.phase \in {"returned", "raised"}
    /\ build' = IF run.phase = "returned"
                THEN [build EXCEPT !.pc = "summary", !.nodes_stats = run.stats,
                                   !.fallback = [returned |-> TRUE, stats |-> run.stats]]
                ELSE IF build.pc = "github"
                THEN [build EXCEPT !.pc = "github_except", !.log = Append(@, "github")]
                ELSE Abort
    /\ run' = IdleRun
    /\ UNCHANGED <<db, written, last, fetchVars, histVars, ask>>

\* A summary that adds the stats of the web run of the nodes to those of
\* the fallback that replaced it.
Summary_keeps_web ==
    /\ build.pc = "summary"
    /\ LET nodes_stats == IF build.fallback.returned
                          THEN [k \in DOMAIN NoStats |->
                                  build.web.stats[k] + build.nodes_stats[k]]
                          ELSE build.nodes_stats
           totals == [pages |-> build.fw_stats.pages + nodes_stats.pages,
                      sections |-> build.fw_stats.sections + nodes_stats.sections,
                      code_examples |-> build.fw_stats.code_examples
                                        + nodes_stats.code_examples,
                      nodes |-> nodes_stats.nodes,
                      errors |-> build.fw_stats.errors + nodes_stats.errors]
       IN build' = [build EXCEPT !.pc = "returned", !.totals = totals,
                                 !.success = (totals.errors = 0),
                                 !.exit = IF totals.errors = 0 THEN 0 ELSE 1]
    /\ UNCHANGED <<db, written, run, last, fetchVars, histVars, ask>>

\* The summary, the copy of the database, `return total_errors == 0` and
\* sys.exit(0 if success else 1).
Summary ==
    /\ build.pc = "summary"
    /\ LET totals == [pages |-> build.fw_stats.pages + build.nodes_stats.pages,
                      sections |-> build.fw_stats.sections + build.nodes_stats.sections,
                      code_examples |-> build.fw_stats.code_examples
                                        + build.nodes_stats.code_examples,
                      nodes |-> build.nodes_stats.nodes,
                      errors |-> build.fw_stats.errors + build.nodes_stats.errors]
       IN build' = [build EXCEPT !.pc = "returned", !.totals = totals,
                                 !.success = (totals.errors = 0),
                                 !.exit = IF totals.errors = 0 THEN 0 ELSE 1]
    /\ UNCHANGED <<db, written, run, last, fetchVars, histVars, ask>>

NextBuild ==
    \/ BuildBegin
    \/ InitDb
    \/ \E st \in FrameworkStarts : StartFramework(st)
    \/ FrameworkEnds
    \/ \E st \in NodeStarts : StartNodes(st)
    \/ NodesEnds
    \/ \E got \in GithubStarts : StartGithub(got)
    \/ GithubEnds
    \/ \E answers \in Scripts : FetchPage(answers)
    \/ \E r \in GithubAnswers : FetchFile(r)
    \/ Fetched
    \/ HtmlPage
    \/ GithubPage
    \/ Return
    \/ Summary

\* No fetch_pages run of its own: the store and the scrapers only.
InitNoFetch ==
    /\ urls = <<>>
    /\ pc = <<>>
    /\ attempt = <<>>
    /\ value = MAX_CONCURRENT
    /\ waiters = <<>>
    /\ result = <<>>
    /\ fp = "none"
    /\ results = <<>>
    /\ watch = 0
    /\ sent = 0
    /\ resps = <<>>
    /\ waits = <<>>

(***************************************************************************)
(* The query layer (src/griptape_mcp/db.py, src/griptape_mcp/server.py),   *)
(* reading the store through SQLite.                                       *)
(*   MATCH  the FTS5 query of the program's callers: words separated by    *)
(*          blanks, every word to be found in some column of the row;      *)
(*          anything else in the text is a syntax error, which sqlite3     *)
(*          raises as OperationalError.  The tokenizer is unicode61:       *)
(*          words are the runs of letters and digits, case folded.         *)
(*   LIKE   '%' + text + '%': text occurs in the column, ASCII case        *)
(*          folded.  Texts holding the wildcards % and _ are left out.     *)
(***************************************************************************)
\* The characters of the elements that are more than one word.
Spelled ==
    ("print(1)" :> <<"print", "(", "1", ")">>) @@ ("run()" :> <<"run", "(", ")">>)
    @@ ("language-" :> <<"language", "-">>) @@ ("highlight-" :> <<"highlight", "-">>)

RECURSIVE Spell(_)
Spell(s) ==
    IF s = <<>> THEN <<>>
    ELSE (IF Head(s) \in DOMAIN Spelled THEN Spelled[Head(s)] ELSE <<Head(s)>>)
         \o Spell(Tail(s))

\* str.lower() of the words of the model, as SQLite folds ASCII case
Lowered ==
    ("Setup" :> "setup") @@ ("Agents" :> "agents") @@ ("Tools" :> "tools")
    @@ ("Usage" :> "usage") @@ ("Title" :> "title") @@ ("Load" :> "load")
    @@ ("Image" :> "image") @@ ("Faq" :> "faq") @@ ("Guide" :> "guide")

Fold(s) == [k \in 1..Len(s) |-> IF s[k] \in DOMAIN Lowered THEN Lowered[s[k]] ELSE s[k]]

\* What neither FTS5 nor its tokenizer takes for part of a word.
Punctuation == {"(", ")", "-", "_", "."}

Separators == NonWord \cup Punctuation

RECURSIVE Words(_, _)
\* The tokens of a text: its maximal runs of word characters.  w is the run
\* being read.
Words(s, w) ==
    IF s = <<>> THEN (IF w = <<>> THEN {} ELSE {w})
    ELSE IF Head(s) \in Separators
         THEN (IF w = <<>> THEN {} ELSE {w}) \cup Words(Tail(s), <<>>)
         ELSE Words(Tail(s), w \o <<Head(s)>>)

\* unicode61 on the text of a column
Tokens(s) == Words(Fold(Spell(s)), <<>>)

\* sqlite3.OperationalError of `... MATCH ?`: the text is no FTS5 query, for
\* want of a word or for a character that is FTS5 syntax.
FtsOperators == {"(", ")", "-", ".", "/", "#", Backtick}

FtsSyntaxError(query) ==
    \/ Tokens(query) = {}
    \/ \E k \in 1..Len(Spell(query)) : Spell(query)[k] \in FtsOperators

\* `fts MATCH ?` on the row of an FTS table whose columns hold cols
FtsMatch(cols, query) ==
    \A t \in Tokens(query) : \E k \in 1..Len(cols) : t \in Tokens(cols[k])

\* `column LIKE '%' || text || '%'`
Like(column, text) == Contains(Fold(Spell(column)), Fold(Spell(text)))

RECURSIVE Sorted(_, _)
\* The rows of a SELECT in the order SQLite delivers them.  `ORDER BY rank`
\* (bm25) and a scan with no ORDER BY fix no order the program can rely on:
\* order is "asc" or "desc", by row id.
Sorted(rows, order) ==
    IF rows = {} THEN <<>>
    ELSE LET r == CHOOSE x \in rows :
                    \A y \in rows : IF order = "asc" THEN x.id <= y.id ELSE x.id >= y.id
         IN <<r>> \o Sorted(rows \ {r}, order)

\* LIMIT n: a negative n is no limit
Limit(rows, n) ==
    IF n < 0 \/ n >= Len(rows) THEN rows ELSE SubSeq(rows, 1, n)

\* results[:limit] of Python
Slice(xs, limit) ==
    IF limit >= 0 THEN Limit(xs, limit)
    ELSE IF Len(xs) + limit <= 0 THEN <<>> ELSE SubSeq(xs, 1, Len(xs) + limit)

\* The columns the three SELECTs of search_code_examples deliver for the
\* code example e, found through the row `rowid` of an FTS table (Null: not
\* through one).  ce_id is the column _collect pops; layer is the layer
\* whose SELECT delivered the row (not program state).
CodeRow(d, e, rowid) ==
    LET p == CHOOSE x \in d.pages : x.id = e.page_id
        ss == {x \in d.sections : x.id = e.section_id}
    IN [id |-> e.id, rowid |-> rowid, layer |-> 0,
        language |-> e.language, code |-> e.code, context |-> e.context,
        heading |-> IF ss = {} THEN None ELSE (CHOOSE x \in ss : TRUE).heading,
        title |-> p.title, url |-> p.url]

\* FROM sections_fts JOIN sections s JOIN code_examples ce JOIN pages p
\* WHERE sections_fts MATCH ?
SectionFtsRows(d, query) ==
    {CodeRow(d, r[2], r[1].rowid) :
       r \in {q \in d.sections_fts \X d.code_examples :
                /\ \E x \in d.sections : x.id = q[1].rowid /\ q[2].section_id = x.id
                /\ \E x \in d.pages : x.id = q[2].page_id
                /\ FtsMatch(<<q[1].heading, q[1].content>>, query)}}

\* FROM pages_fts JOIN pages p JOIN code_examples ce LEFT JOIN sections s
\* WHERE pages_fts MATCH ?
PageFtsRows(d, query) ==
    {CodeRow(d, r[2], r[1].rowid) :
       r \in {q \in d.pages_fts \X d.code_examples :
                /\ \E x \in d.pages : x.id = q[1].rowid /\ q[2].page_id = x.id
                /\ FtsMatch(<<q[1].title, q[1].content>>, query)}}

\* FROM code_examples ce JOIN pages p LEFT JOIN sections s
\* WHERE ce.code LIKE ? OR ce.context LIKE ?
LikeRows(d, query) ==
    {CodeRow(d, e, Null) :
       e \in {q \in d.code_examples :
                /\ \E x \in d.pages : x.id = q.page_id
                /\ Like(q.code, query) \/ Like(q.context, query)}}

RECURSIVE _collect_no_seen(_, _, _)
\* _collect without the test of `seen`
_collect_no_seen(rows, acc, layer) ==
    IF rows = <<>> THEN acc
    ELSE LET r == Head(rows) IN
         _collect_no_seen(Tail(rows),
                         [acc EXCEPT !.seen = @ \cup {r.id},
                                     !.results = Append(@, [r EXCEPT !.layer = layer])],
                         layer)

RECURSIVE _collect(_, _, _)
\* search_code_examples._collect on the rows of the SELECT of a layer
_collect(rows, acc, layer) ==
    IF rows = <<>> THEN acc
    ELSE LET r == Head(rows) IN
         _collect(Tail(rows),
                 IF r.id \in acc.seen THEN acc
                 ELSE [acc EXCEPT !.seen = @ \cup {r.id},
                                  !.results = Append(@, [r EXCEPT !.layer = layer])],
                 layer)

\* The SELECT of a layer is executed; ran records the layer and
\* len(results) at that moment (not program state).
Execute(acc, layer) ==
    [acc EXCEPT !.ran = Append(@, [layer |-> layer, had |-> Len(acc.results)])]

\* `if len(results) < limit:` written as `<=`
Below_or_equal(acc, limit) == Len(acc.results) <= limit

\* `if len(results) < limit:`
Below(acc, limit) == Len(acc.results) < limit

\* `return results[:limit]`
Returned(acc, limit) == Slice(acc.results, limit)

search_code_examples(d, query, limit, order) ==
    LET acc0 == [seen |-> {}, results |-> <<>>, ran |-> <<>>]
        \* Layer 1; `except sqlite3.OperationalError: pass`
        acc1 == IF FtsSyntaxError(query) THEN Execute(acc0, 1)
                ELSE _collect(Limit(Sorted(SectionFtsRows(d, query), order), limit),
                             Execute(acc0, 1), 1)
        \* Layer 2
        acc2 == IF ~Below(acc1, limit) THEN acc1
                ELSE IF FtsSyntaxError(query) THEN Execute(acc1, 2)
                ELSE _collect(Limit(Sorted(PageFtsRows(d, query), order),
                                   limit - Len(acc1.results)),
                             Execute(acc1, 2), 2)
        \* Layer 3
        acc3 == IF ~Below(acc2, limit) THEN acc2
                ELSE _collect(Limit(Sorted(LikeRows(d, query), order),
                                   limit - Len(acc2.results)),
                             Execute(acc2, 3), 3)
    IN [results |-> Returned(acc3, limit), ran |-> acc3.ran]

\* SELECT n.*, p.url, p.content FROM nodes n LEFT JOIN pages p ON p.id = n.page_id
NodeRow(d, n) ==
    LET ps == {x \in d.pages : x.id = n.page_id} IN
    [id |-> n.id, name |-> n.name, display_name |-> n.display_name,
     category |-> n.category, description |-> n.description, page_id |-> n.page_id,
     url |-> IF ps = {} THEN None ELSE (CHOOSE x \in ps : TRUE).url,
     content |-> IF ps = {} THEN None ELSE (CHOOSE x \in ps : TRUE).content]

\* WHERE n.name = ? OR n.display_name = ?
ExactNodes(d, name) ==
    {NodeRow(d, n) : n \in {m \in d.nodes : m.name = name \/ m.display_name = name}}

\* WHERE n.name LIKE ? OR n.display_name LIKE ?
LikeNodes(d, name) ==
    {NodeRow(d, n) : n \in {m \in d.nodes : Like(m.name, name) \/ Like(m.display_name, name)}}

\* WHERE REPLACE(n.name, ' ', '') LIKE ? OR REPLACE(n.display_name, ' ', '') LIKE ?
\* with stripped = name.replace(" ", "")
StrippedNodes(d, name) ==
    LET stripped == Replace(name, <<" ">>, <<>>) IN
    {NodeRow(d, n) :
       n \in {m \in d.nodes : \/ Like(Replace(m.name, <<" ">>, <<>>), stripped)
                              \/ Like(Replace(m.display_name, <<" ">>, <<>>), stripped)}}

\* `LIMIT 1` and fetchone(): <<>> for None
FetchOne(rows, order) == IF rows = {} THEN <<>> ELSE <<Sorted(rows, order)[1]>>

\* The LIKE match tried before the exact match.
get_node_by_name_like_first(d, name, order) ==
    LET exact == FetchOne(ExactNodes(d, name), order)
        like == FetchOne(LikeNodes(d, name), order)
        stripped == FetchOne(StrippedNodes(d, name), order)
    IN IF like # <<>> THEN like
       ELSE IF exact # <<>> THEN exact
       ELSE stripped

get_node_by_name(d, name, order) ==
    LET exact == FetchOne(ExactNodes(d, name), order)
        like == FetchOne(LikeNodes(d, name), order)
        stripped == FetchOne(StrippedNodes(d, name), order)
    IN IF exact # <<>> THEN exact
       ELSE IF like # <<>> THEN like
       ELSE stripped

\* What a function of db.py hands to the tool that called it: a value, or
\* the exception that left it.
Value(v) == [raised |-> FALSE, value |-> v]

Raised == [raised |-> TRUE, value |-> <<>>]

\* FROM pages_fts JOIN pages p ON p.id = pages_fts.rowid
\* WHERE pages_fts MATCH ? [AND p.source = ?]
PageRows(d, query, source) ==
    {r[2] : r \in {q \in d.pages_fts \X d.pages :
                     /\ q[2].id = q[1].rowid
                     /\ FtsMatch(<<q[1].title, q[1].content>>, query)
                     /\ source = "all" \/ q[2].source = source}}

\* search_pages without its `except sqlite3.OperationalError`
search_pages_no_except(d, query, source, limit, order) ==
    IF FtsSyntaxError(query) THEN Raised
    ELSE Value(Limit(Sorted(PageRows(d, query, source), order), limit))

search_pages(d, query, source, limit, order) ==
    IF FtsSyntaxError(query) THEN Value(<<>>)
    ELSE Value(Limit(Sorted(PageRows(d, query, source), order), limit))

\* SELECT * FROM pages WHERE url = ?
get_page_by_url(d, url, order) == FetchOne({p \in d.pages : p.url = url}, order)

\* SELECT * FROM pages WHERE title LIKE ? LIMIT 1
get_page_by_title(d, title, order) == FetchOne({p \in d.pages : Like(p.title, title)}, order)

\* SELECT * FROM sections WHERE page_id = ? ORDER BY id
get_page_sections(d, page_id) == Sorted({x \in d.sections : x.page_id = page_id}, "asc")

\* SELECT * FROM code_examples WHERE page_id = ? ORDER BY id
get_page_code_examples(d, page_id) ==
    Sorted({e \in d.code_examples : e.page_id = page_id}, "asc")

\* `column LIKE ?` on a column that may be NULL
LikeOrNull(column, text) == column # None /\ Like(column, text)

\* The first SELECT of search_nodes, category being None or a name.
NodeRows(d, query, category) ==
    LET stripped == Replace(query, <<" ">>, <<>>) IN
    {NodeRow(d, n) :
       n \in {m \in d.nodes :
                /\ category # None => m.category = category
                /\ \/ Like(m.name, query)
                   \/ Like(m.display_name, query)
                   \/ LikeOrNull(m.description, query)
                   \/ category = None /\ Like(m.category, query)
                   \/ Like(Replace(m.name, <<" ">>, <<>>), stripped)
                   \/ Like(Replace(m.display_name, <<" ">>, <<>>), stripped)}}

\* The SELECT of the fallback of search_nodes for one word.
WordRows(d, word) ==
    {NodeRow(d, n) :
       n \in {m \in d.nodes : \/ Like(m.name, word)
                              \/ Like(m.display_name, word)
                              \/ LikeOrNull(m.description, word)}}

\* str.split(): the runs of characters that are no whitespace
RECURSIVE SplitWords(_, _)
SplitWords(s, w) ==
    IF s = <<>> THEN (IF w = <<>> THEN <<>> ELSE <<w>>)
    ELSE IF Head(s) \in Whitespace
         THEN (IF w = <<>> THEN <<>> ELSE <<w>>) \o SplitWords(Tail(s), <<>>)
         ELSE SplitWords(Tail(s), w \o <<Head(s)>>)

RECURSIVE Combined(_, _, _, _, _)
\* The loop `for word in query.split()` of search_nodes; every word of the
\* model has two characters or more.
Combined(d, words, combined, limit, order) ==
    IF words = <<>> THEN combined
    ELSE LET rows == Limit(Sorted(WordRows(d, Head(words)), order), limit)
             fresh == SelectSeq(rows, LAMBDA r : \A k \in 1..Len(combined) : combined[k].id # r.id)
         IN Combined(d, Tail(words), combined \o fresh, limit, order)

\* db.search_nodes; rows with the same name come in either order
search_nodes(d, query, category, limit, order) ==
    LET rows == Limit(Sorted(NodeRows(d, query, category), order), limit) IN
    IF rows = <<>> /\ Contains(query, <<" ">>)
    THEN Limit(Combined(d, SplitWords(query, <<>>), <<>>, limit, order), limit)
    ELSE rows

\* The CASE of list_all_categories on the url of a framework page
FrameworkSection(url) ==
    IF Contains(url, <<"/", "structures", "/">>) THEN <<"Structures">>
    ELSE IF Contains(url, <<"/", "tools", "/">>) THEN <<"Tools">>
    ELSE IF Contains(url, <<"/", "drivers", "/">>) THEN <<"Drivers">>
    ELSE IF Contains(url, <<"/", "engines", "/">>) THEN <<"Engines">>
    ELSE IF Contains(url, <<"/", "data", "/">>) THEN <<"Data">>
    ELSE IF Contains(url, <<"/", "misc", "/">>) THEN <<"Misc">>
    ELSE IF Contains(url, <<"/", "recipes", "/">>) THEN <<"Recipes">>
    ELSE <<"Other">>

RECURSIVE ByCount(_)
\* GROUP BY category ORDER BY count DESC
ByCount(groups) ==
    IF groups = {} THEN <<>>
    ELSE LET g == CHOOSE x \in groups : \A y \in groups : x.count >= y.count
         IN <<g>> \o ByCount(groups \ {g})

\* db.list_all_categories
list_all_categories(d) ==
    LET fw == {p \in d.pages : p.source = "framework"} IN
    [framework_sections |->
         ByCount({[category |-> FrameworkSection(p.url),
                   count |-> Cardinality({q \in fw : FrameworkSection(q.url)
                                                       = FrameworkSection(p.url)})] :
                    p \in fw}),
     node_categories |->
         ByCount({[category |-> n.category,
                   count |-> Cardinality({m \in d.nodes : m.category = n.category})] :
                    n \in d.nodes})]

(***************************************************************************)
(* The tools (src/griptape_mcp/server.py).  What a tool hands to its       *)
(* caller is a str, of which the model keeps which message it is (says)    *)
(* and the number of results it lists (n), or an exception.                *)
(***************************************************************************)
MAX_QUERY_LENGTH == 1000

Str(says, n) == [kind |-> "str", says |-> says, n |-> n]

Raises == [kind |-> "raise", says |-> "sqlite3.OperationalError", n |-> 0]

\* server._validate_query: <<>> for None
_validate_query(query) ==
    IF query = <<>> \/ Strip(query) = <<>>
    THEN <<"Error: query must be a non-empty string.">>
    ELSE IF Len(query) > MAX_QUERY_LENGTH
    THEN <<"Error: query too long">>
    ELSE <<>>

\* search_pages(conn, query, source): limit at its default
SEARCH_PAGES_LIMIT == 10

search_docs(d, query, source, order) ==
    IF _validate_query(query) # <<>> THEN Str(_validate_query(query)[1], 0)
    ELSE IF source \notin {"framework", "nodes", "all"}
    THEN Str("Error: source must be 'framework', 'nodes', or 'all'.", 0)
    ELSE LET found == search_pages(d, query, source, SEARCH_PAGES_LIMIT, order) IN
         IF found.raised THEN Raises
         ELSE IF found.value = <<>> THEN Str("No results found", 0)
         ELSE Str("Found result(s)", Len(found.value))

\* url_or_title.startswith("http")
IsHttp(text) == text # <<>> /\ Head(text) \in {FrameworkHost, BASE_URL}

get_page(d, url_or_title, order) ==
    IF url_or_title = <<>> \/ Strip(url_or_title) = <<>>
    THEN Str("Error: url_or_title must be a non-empty string.", 0)
    ELSE IF Len(url_or_title) > MAX_QUERY_LENGTH
    THEN Str("Error: input too long", 0)
    ELSE LET page == IF IsHttp(url_or_title)
                     THEN get_page_by_url(d, url_or_title, order)
                     ELSE get_page_by_title(d, url_or_title, order)
         IN IF page = <<>> THEN Str("No page found", 0)
            ELSE Str("page", Len(get_page_sections(d, page[1].id))
                             + Len(get_page_code_examples(d, page[1].id)))

\* db_search_nodes(conn, query, category): limit at its default
SEARCH_NODES_LIMIT == 20

search_griptape_nodes(d, query, category, order) ==
    IF _validate_query(query) # <<>> THEN Str(_validate_query(query)[1], 0)
    ELSE LET found == search_nodes(d, query, category, SEARCH_NODES_LIMIT, order) IN
         IF found = <<>> THEN Str("No nodes found", 0)
         ELSE Str("Found node(s)", Len(found))

get_node_details(d, node_name, order) ==
    IF _validate_query(node_name) # <<>> THEN Str(_validate_query(node_name)[1], 0)
    ELSE LET node == get_node_by_name(d, node_name, order) IN
         IF node = <<>> THEN Str("No node found", 0)
         ELSE Str("node", IF node[1].page_id = Null THEN 0
                          ELSE Len(get_page_code_examples(d, node[1].page_id)))

list_categories(d) ==
    LET cats == list_all_categories(d) IN
    Str("categories", Len(cats.framework_sections) + Len(cats.node_categories))

\* search_code_examples(conn, topic): limit at its default
SEARCH_CODE_LIMIT == 10

get_code_examples(d, topic, order) ==
    IF _validate_query(topic) # <<>> THEN Str(_validate_query(topic)[1], 0)
    ELSE LET found == search_code_examples(d, topic, SEARCH_CODE_LIMIT, order).results IN
         IF found = <<>> THEN Str("No code examples found", 0)
         ELSE Str("Found code example(s)", Len(found))

(***************************************************************************)
(* The stores the queries are asked of: what the framework and the node    *)
(* scraper leave behind after the sites served these pages, one write      *)
(* after the other.                                                        *)
(***************************************************************************)
\* its code example follows no heading
DocSetup ==
    [h1 |-> <<"Setup">>, content_el |-> TRUE,
     content_text |-> <<"setup", " ", "guide", " ", "run()">>,
     sections |-> <<>>,
     pres |-> <<[has_code |-> TRUE, code |-> <<"run()">>,
                 classes |-> <<>>, prev |-> <<>>]>>]

\* `setuptools` is one word
DocInstall ==
    [h1 |-> <<"Install">>, content_el |-> TRUE,
     content_text |-> <<"install", " ", "setup", "tools">>,
     sections |-> <<>>,
     pres |-> <<[has_code |-> TRUE, code |-> <<"import", " ", "setup", "tools">>,
                 classes |-> <<>>, prev |-> <<>>]>>]

NodeDoc(h1) ==
    [h1 |-> h1, content_el |-> TRUE, content_text |-> <<"node">>,
     sections |-> <<>>, pres |-> <<>>]

FwSetup == <<FrameworkHost, "/", "stable", "/", "framework", "/", "setup", "/">>

FwInstall == <<FrameworkHost, "/", "stable", "/", "framework", "/", "install", "/">>

NodeImage ==
    <<BASE_URL, "/", "en", "/", "stable", "/", "nodes", "/", "image", "/", "image", "/">>

\* url, scraper and document of one iteration of `for page in pages`
QueryWrites ==
    {<<FwAgents, "framework", DocAgents>>, <<FwAgents, "framework", DocTools>>,
     <<FwSetup, "framework", DocSetup>>, <<FwInstall, "framework", DocInstall>>,
     <<NodeLoadImage, "nodes", NodeDoc(<<"Load", "Image">>)>>,
     <<NodeLoadImage, "nodes", NodeDoc(<<"Load", " ", "Image">>)>>,
     <<NodeImage, "nodes", NodeDoc(<<"Image">>)>>}

MaxPages == 3

RECURSIVE Scraped(_, _)
\* The store after the iterations ws on the store d.
Scraped(d, ws) ==
    IF ws = <<>> THEN d
    ELSE LET w == Head(ws)
             data == extract_mkdocs_content(w[3])
             info == IF w[2] = "nodes" THEN web_extract_node_info(w[1], data.title) ELSE <<>>
         IN Scraped(WritePage(d, w[1], w[2], data, info), Tail(ws))

QueryStores ==
    {Scraped(EmptyStore, ws) : ws \in UNION {[1..n -> QueryWrites] : n \in 0..MaxPages}}

\* The texts asked for.
QueryTexts ==
    {<<>>, <<" ">>, <<"Setup">>, <<"setup">>, <<"agents">>, <<"print(1)">>,
     <<"print">>, <<"setup", " ", "guide">>, <<"zzz">>,
     <<"Load", "Image">>, <<"Load", " ", "Image">>, <<"Image">>, <<"load">>}

\* limit is a number of results: 0..MaxLimit
MaxLimit == 3

\* One character more than the tools accept.
TooLong == [k \in 1..(MAX_QUERY_LENGTH + 1) |-> "x"]

\* The texts the tools are called with.
ToolTexts == QueryTexts \cup {TooLong, FwAgents, <<"(">>}

\* A query is asked of a store: the call is made, nothing has run.
InitQuery ==
    /\ InitNoFetch
    /\ db \in QueryStores
    /\ run = IdleRun
    /\ last = NoPage
    /\ written = {}
    /\ build = NoBuild
    /\ ask \in {[fn |-> "none", pc |-> "called",
                 arg |-> [text |-> q, opt |-> <<>>, order |-> o],
                 limit |-> n, out |-> <<>>] :
                  q \in ToolTexts, o \in {"asc", "desc"}, n \in 0..MaxLimit}

\* db.search_code_examples(conn, query, limit) runs and returns; the text is
\* one the tools let through their test of its length.
SearchCodeExamples ==
    /\ ask.pc = "called"
    /\ Len(ask.arg.text) <= MAX_QUERY_LENGTH
    /\ ask' = [ask EXCEPT !.fn = "search_code_examples", !.pc = "returned",
                          !.out = <<search_code_examples(db, ask.arg.text, ask.limit,
                                                         ask.arg.order)>>]
    /\ UNCHANGED <<db, run, last, written, build, fetchVars, histVars>>

\* db.get_node_by_name(conn, name) runs and returns.
GetNodeByName ==
    /\ ask.pc = "called"
    /\ Len(ask.arg.text) <= MAX_QUERY_LENGTH
    /\ ask' = [ask EXCEPT !.fn = "get_node_by_name", !.pc = "returned",
                          !.out = get_node_by_name(db, ask.arg.text, ask.arg.order)]
    /\ UNCHANGED <<db, run, last, written, build, fetchVars, histVars>>

\* db.search_nodes(conn, query, category, limit) runs and returns.
SearchNodes(category) ==
    /\ ask.pc = "called"
    /\ Len(ask.arg.text) <= MAX_QUERY_LENGTH
    /\ ask' = [ask EXCEPT !.fn = "search_nodes", !.arg.opt = category, !.pc = "returned",
                          !.out = search_nodes(db, ask.arg.text, category, ask.limit,
                                               ask.arg.order)]
    /\ UNCHANGED <<db, run, last, written, build, fetchVars, histVars>>

\* A tool is called and returns or raises.
Tool(fn, opt, outcome) ==
    /\ ask.pc = "called"
    /\ ask.limit = 0
    /\ ask' = [ask EXCEPT !.fn = fn, !.arg.opt = opt,
                          !.pc = IF outcome.kind = "str" THEN "returned" ELSE "raised",
                          !.out = <<outcome>>]
    /\ UNCHANGED <<db, run, last, written, build, fetchVars, histVars>>

\* The values of the argument source the callers send.
Sources == {"framework", "nodes", "all", "everything"}

\* The values of the argument category the callers send.
Categories == {None, <<"Image">>, <<"Video">>}

SearchDocs(source) ==
    Tool("search_docs", <<source>>, search_docs(db, ask.arg.text, source, ask.arg.order))

GetPage == Tool("get_page", <<>>, get_page(db, ask.arg.text, ask.arg.order))

SearchGriptapeNodes(category) ==
    Tool("search_griptape_nodes", category,
         search_griptape_nodes(db, ask.arg.text, category, ask.arg.order))

GetNodeDetails ==
    Tool("get_node_details", <<>>, get_node_details(db, ask.arg.text, ask.arg.order))

ListCategories == Tool("list_categories", <<>>, list_categories(db))

GetCodeExamples ==
    Tool("get_code_examples", <<>>, get_code_examples(db, ask.arg.text, ask.arg.order))

NextQuery ==
    \/ SearchCodeExamples
    \/ GetNodeByName
    \/ \E category \in Categories : SearchNodes(category)
    \/ \E source \in Sources : SearchDocs(source)
    \/ GetPage
    \/ \E category \in Categories : SearchGriptapeNodes(category)
    \/ GetNodeDetails
    \/ ListCategories
    \/ GetCodeExamples

SpecQuery == InitQuery /\ [][NextQuery]_vars

InitScrapers == InitNoFetch /\ InitStore

\* A build is asked for, the database file being there or not.
InitBuild ==
    /\ InitNoFetch
    /\ db = EmptyStore
    /\ run = IdleRun
    /\ last = NoPage
    /\ written = {}
    /\ ask = NoAsk
    /\ build \in {[NoBuild EXCEPT !.pc = "start", !.file = f] : f \in {"absent", "present"}}

SpecBuild == InitBuild /\ [][NextBuild]_vars

SpecSchema == InitScrapers /\ [][NextSchema]_vars

SpecStore == InitScrapers /\ [][NextStore]_vars

Init == InitFetch /\ InitStore

\* The same run, with the history of one task recorded.
InitRetry ==
    /\ \E n \in 1..NumUrls : urls = [i \in 1..n |-> Url(i)]
    /\ pc = [i \in Tasks |-> "created"]
    /\ attempt = [i \in Tasks |-> 0]
    /\ value = MAX_CONCURRENT
    /\ waiters = <<>>
    /\ result = [i \in Tasks |-> NoOutcome]
    /\ fp = "running"
    /\ results = <<>>
    /\ watch \in Tasks
    /\ sent = 0
    /\ resps = <<>>
    /\ waits = <<>>

InitWatched == InitRetry /\ InitStore

Next ==
    \/ \E i \in Tasks : Start(i)
    \/ \E i \in Tasks : Resume(i)
    \/ \E i \in Tasks : \E r \in Answers(i) : Respond(i, r)
    \/ \E i \in Tasks : BackoffOver(i)
    \/ \E i \in Tasks : DelayOver(i)
    \/ Gather

Spec == Init /\ [][Next]_vars

SpecRetry == InitWatched /\ [][Next]_vars

\* The steps of task i: the event loop runs every task that can run, every
\* request is answered and every sleep ends.
TaskStep(i) ==
    /\ i \in Tasks
    /\ \/ Start(i)
       \/ Resume(i)
       \/ \E r \in Answers(i) : Respond(i, r)
       \/ BackoffOver(i)
       \/ DelayOver(i)

\* One run of fetch_pages under a fair event loop.
SpecLive ==
    /\ Init
    /\ [][Next]_vars
    /\ \A i \in 1..NumUrls : WF_vars(TaskStep(i))
    /\ WF_vars(Gather)

(***************************************************************************)
(* Properties of fetch_pages.                                              *)
(***************************************************************************)
IsContent(o) == o.html # None /\ o.error = None

IsError(o) == o.html = None /\ o.error # None

AllOutcomesProduced ==
    /\ Len(results) = Len(urls)
    /\ \A i \in 1..Len(urls) :
          /\ IsContent(results[i]) \/ IsError(results[i])
          /\ results[i].url = urls[i]

\* C1: fetch_pages never raises to its caller, and the list it returns holds
\* exactly one outcome per submitted URL, in the order of submission, each
\* either (html = content, error = None) or (html = None, error = message).
C1_OneOutcomePerUrl ==
    /\ fp # "raised"
    /\ fp = "returned" => AllOutcomesProduced

C1_Witness ==
    /\ fp = "returned"
    /\ Len(urls) > MAX_CONCURRENT
    /\ \E i, j, k \in Tasks :
          /\ IsContent(results[i])
          /\ results[j].error = <<"ConnectError">>
          /\ results[k].error = MaxRetriesExceeded

Holders == {i \in Tasks : Holding(i)}

\* C2: at any moment at most MAX_CONCURRENT (3) tasks are inside
\* `async with semaphore` (request in flight, 429 backoff or post-fetch
\* delay), whatever the number of URLs and the order of the answers.
C2_AtMostThreePermits ==
    /\ Cardinality(Holders) <= MAX_CONCURRENT
    /\ Cardinality(Holders) + value = MAX_CONCURRENT

C2_Witness ==
    /\ Cardinality(Holders) = MAX_CONCURRENT
    /\ waiters # <<>>
    /\ \E i, j, k \in Holders :
          pc[i] = "request" /\ pc[j] = "backoff" /\ pc[k] = "delay"

All429(h) == \A k \in 1..Len(h) : h[k] = "429"

Watched == watch \in Tasks

\* C3: one URL is requested at most MAX_RETRIES (5) times; when all five
\* answers are 429 its outcome is the error 'Max retries exceeded (429)',
\* and fetch_pages still returns the outcomes of all the URLs.
C3_RetryBound ==
    Watched =>
       /\ sent <= MAX_RETRIES
       /\ Len(resps) <= MAX_RETRIES
       /\ (Len(resps) = MAX_RETRIES /\ All429(resps) /\ pc[watch] = "done")
             => result[watch] = Outcome(urls[watch], None, MaxRetriesExceeded)
       /\ fp # "raised"
       /\ fp = "returned" => AllOutcomesProduced

C3_Witness ==
    /\ Watched
    /\ fp = "returned"
    /\ sent = MAX_RETRIES
    /\ Len(resps) = MAX_RETRIES /\ All429(resps)
    /\ results[watch].error = MaxRetriesExceeded
    /\ \E j \in Tasks : j # watch /\ IsContent(results[j])

\* The history of a URL answered k times 429 and then with a page in size.
ThenSuccess(h) ==
    /\ h # <<>>
    /\ h[Len(h)] = "ok"
    /\ All429(SubSeq(h, 1, Len(h) - 1))

\* C4: a URL answered k < 5 times 429 and then with a page within the size
\* limit has slept 10, 20, ..., 10*k seconds after the k refused attempts,
\* has made exactly k + 1 requests and returns the page with error = None.
C4_LinearBackoff ==
    (Watched /\ ThenSuccess(resps)) =>
       LET k == Len(resps) - 1 IN
       /\ k < MAX_RETRIES
       /\ sent = k + 1
       /\ waits = [j \in 1..(k + 1) |-> IF j <= k THEN 10 * j ELSE REQUEST_DELAY]
       /\ pc[watch] \in {"delay", "done"}
       /\ result[watch] = Outcome(urls[watch], PageText, None)

C4_Witness ==
    /\ Watched
    /\ pc[watch] = "done"
    /\ resps = <<"429", "429", "429", "ok">>
    /\ waits = <<10, 20, 30, REQUEST_DELAY>>
    /\ sent = 4
    /\ IsContent(result[watch])

Failed(h) == h # <<>> /\ h[Len(h)] \in {"exception", "status"}

\* What the answers a URL got say its outcome is, whatever its siblings did.
OwnOutcome(h, o) ==
    CASE h[Len(h)] = "ok" -> IsContent(o)
      [] h[Len(h)] = "429" -> o.error = MaxRetriesExceeded /\ o.html = None
      [] h[Len(h)] = "oversized" -> o.error[1] = "Response too large" /\ o.html = None
      [] h[Len(h)] = "exception" -> o.error = <<"ConnectError">> /\ o.html = None
      [] OTHER -> o.error[1] = "HTTPStatusError" /\ o.html = None

\* C5: a network error or a non-2xx, non-429 status ends the URL at once
\* with an error outcome (no further request for it); the outcome of every
\* URL is decided by the answers to that URL alone, and fetch_pages returns
\* all of them.
C5_FailureIsolated ==
    Watched =>
       /\ Failed(resps) =>
             /\ pc[watch] = "done"
             /\ IsError(result[watch])
             /\ sent = Len(resps)
       /\ pc[watch] = "done" =>
             /\ resps # <<>>
             /\ result[watch].url = urls[watch]
             /\ OwnOutcome(resps, result[watch])
       /\ fp # "raised"
       /\ fp = "returned" => AllOutcomesProduced

C5_Witness ==
    /\ Watched
    /\ fp = "returned"
    /\ resps = <<"429", "ok">>
    /\ IsContent(results[watch])
    /\ \E f, g \in Tasks :
          /\ f < watch /\ watch < g
          /\ results[f].error = <<"ConnectError">>
          /\ results[g].error = <<"HTTPStatusError", 500>>

(***************************************************************************)
(* The scrapers and the store.                                             *)
(***************************************************************************)
\* The loop of the scraper takes the first of the pages left.
PageStep == run.phase = "writing" /\ run.pages # <<>> /\ run'.pages = Tail(run.pages)

\* C6: a 2xx response whose declared content-length or whose decoded length
\* exceeds MAX_RESPONSE_SIZE gives an error outcome with html = None, and
\* the scraper that fetched it writes nothing to the store for it.
C6_OversizedNeverStored ==
    /\ [](\A k \in 1..Len(run.pages) :
             run.pages[k].class = "oversized"
             => /\ run.pages[k].out.html = None
                /\ run.pages[k].out.error # None)
    /\ [][PageStep /\ Head(run.pages).class = "oversized"
          => /\ db' = db
             /\ written' = written
             /\ run'.stats.pages = run.stats.pages
             /\ run'.stats.errors = run.stats.errors + 1]_vars

\* The loop of a scraper has just handled an oversized response.
C6_Witness ==
    /\ last.class = "oversized"
    /\ last.scraper \in {"framework", "nodes"}
    /\ ~last.wrote
    /\ run.stats.errors >= 1

\* C7: every row of pages has a non-empty title.
C7_TitlesNonEmpty == \A p \in db.pages : p.title # <<>>

\* C8: every section and every code example refers to an existing page, and
\* a step that removes a page row (DELETE, or the delete of REPLACE) removes
\* the sections and code examples that referred to it.
C8_ChildrenHavePages ==
    /\ [](/\ \A x \in db.sections : \E p \in db.pages : p.id = x.page_id
          /\ \A e \in db.code_examples : \E p \in db.pages : p.id = e.page_id)
    /\ [][\A p \in db.pages :
            (\A q \in db'.pages : q.id # p.id)
            => /\ \A x \in db'.sections : x.page_id # p.id
               /\ \A e \in db'.code_examples : e.page_id # p.id]_vars

\* A page that had sections and code examples is gone, and they with it.
C8_Witness ==
    /\ Cardinality(db.pages) < db.seq_pages
    /\ Cardinality(db.sections) < db.seq_sections
    /\ Cardinality(db.code_examples) < db.seq_code_examples

RECURSIVE ByRowId(_)
\* The rows of a table in the order of their ids.
ByRowId(rows) ==
    IF rows = {} THEN <<>>
    ELSE LET r == CHOOSE x \in rows : \A y \in rows : x.id <= y.id
         IN <<r>> \o ByRowId(rows \ {r})

SectionsOf(p) ==
    LET rows == ByRowId({x \in db.sections : x.page_id = p.id}) IN
    [k \in 1..Len(rows) |-> [heading |-> rows[k].heading, level |-> rows[k].level,
                             content |-> rows[k].content]]

CodeExamplesOf(p) ==
    LET rows == ByRowId({e \in db.code_examples : e.page_id = p.id}) IN
    [k \in 1..Len(rows) |-> [language |-> rows[k].language, code |-> rows[k].code,
                             context |-> rows[k].context]]

\* C9: per URL at most one page row; it holds the title and the body of the
\* most recent write of the URL, and its sections and code examples are
\* exactly those of that write.
C9_LastWriteWins ==
    /\ \A p, q \in db.pages : p.url = q.url => p = q
    /\ \A w \in written :
         \E p \in db.pages :
            /\ p.url = w.url
            /\ p.title = w.title
            /\ p.content = w.content
            /\ SectionsOf(p) = w.sections
            /\ CodeExamplesOf(p) = w.code_examples
    /\ \A p \in db.pages : \E w \in written : w.url = p.url

\* A URL written twice with different documents: the one section of the
\* first version gone, the two of the second there.
C9_Witness ==
    /\ db.seq_pages = 2
    /\ Cardinality(db.pages) = 1
    /\ db.seq_sections = 3
    /\ Cardinality(db.sections) = 2

\* C10: the entries of pages_fts are the (id, title, content) of the rows of
\* pages, and those of sections_fts the (id, heading, content) of the rows
\* of sections.
C10_FtsMirrorsTables ==
    /\ db.pages_fts = {PageFts(p) : p \in db.pages}
    /\ db.sections_fts = {SectionFts(x) : x \in db.sections}

(***************************************************************************)
(* build.                                                                  *)
(***************************************************************************)
\* The place of a step in the order of build.
StepOrder(x) ==
    CASE x = "remove" -> 1 [] x = "init" -> 2 [] x = "framework" -> 3
      [] x = "nodes" -> 4 [] OTHER -> 5

InLog(x) == \E k \in 1..Len(build.log) : build.log[k] = x

\* C11: build removes the old database, initializes the schema, runs the
\* framework scraper, then the node web scraper; the GitHub scraper is
\* called if and only if the node web scraper raised or returned
\* errors > pages, and never before the node web scraper has finished.
C11_BuildOrder ==
    /\ \A j, k \in 1..Len(build.log) :
          j < k => \/ StepOrder(build.log[j]) < StepOrder(build.log[k])
                   \/ build.log[j] = "github" /\ build.log[k] = "github"
    /\ \A k \in 1..Len(build.log) :
          /\ build.log[k] = "framework" => k > 1 /\ build.log[k - 1] = "init"
          /\ build.log[k] = "nodes" => k > 1 /\ build.log[k - 1] = "framework"
          /\ build.log[k] = "github" => k > 1 /\ build.log[k - 1] \in {"nodes", "github"}
    /\ InLog("github") <=> \/ build.web.raised
                           \/ build.web.stats.errors > build.web.stats.pages
    /\ build.pc = "nodes" => ~InLog("github")
    /\ run.phase \in {"fetching", "writing"} => run.scraper = build.log[Len(build.log)]
    /\ build.pc \in {"summary", "returned"} => InLog("nodes")

\* build has returned after a fallback that the error count of the web run
\* called for.
C11_Witness ==
    /\ build.pc = "returned"
    /\ build.log = <<"remove", "init", "framework", "nodes", "github">>
    /\ ~build.web.raised
    /\ build.web.stats.errors > build.web.stats.pages
    /\ build.fallback.stats.pages >= 1

\* The stats of the node source build used in the end.
UsedNodeStats == IF build.fallback.returned THEN build.fallback.stats ELSE build.web.stats

\* C12: build returns success, and the process exits with 0, if and only
\* if the errors of the framework scraper plus those of the node source
\* used in the end are zero; each total is the sum over the framework and
\* that node source.
C12_BuildResult ==
    /\ build.pc = "returned"
       => /\ build.success <=> build.fw_stats.errors + UsedNodeStats.errors = 0
          /\ build.totals.pages = build.fw_stats.pages + UsedNodeStats.pages
          /\ build.totals.sections = build.fw_stats.sections + UsedNodeStats.sections
          /\ build.totals.code_examples
             = build.fw_stats.code_examples + UsedNodeStats.code_examples
          /\ build.totals.errors = build.fw_stats.errors + UsedNodeStats.errors
    /\ build.exit = 0 <=> build.pc = "returned" /\ build.success
    /\ build.pc = "returned" => build.exit \in {0, 1}

\* build has returned failure after a fallback that replaced a web run with
\* errors of its own.
C12_Witness ==
    /\ build.pc = "returned"
    /\ build.fallback.returned
    /\ build.web.stats.errors >= 1
    /\ build.fallback.stats.errors = 0
    /\ build.fallback.stats.pages >= 1
    /\ build.success

\* C13: the failure of the sitemap or listing fetch of a source does not
\* abort build: build falls back and returns a result.
C13_SourceFailureHandled ==
    /\ build.pc = "raised" => InLog("nodes")
    /\ build.web.raised /\ build.pc # "raised" => InLog("github")

(***************************************************************************)
(* search_code_examples.                                                   *)
(***************************************************************************)
\* search_code_examples has returned.
CodeSearchDone == ask.fn = "search_code_examples" /\ ask.pc = "returned"

\* C14: the list search_code_examples returns holds no code example (by its
\* id) twice, and what layer 1 produced first comes before what layer 2
\* produced first, which comes before what layer 3 produced first.
C14_NoDuplicateLayerOrder ==
    CodeSearchDone =>
        LET r == ask.out[1].results IN
        \A i, j \in 1..Len(r) :
            i < j => r[i].id # r[j].id /\ r[i].layer <= r[j].layer

\* All three layers contributed, and layer 3 found again what layer 1 had.
C14_Witness ==
    /\ CodeSearchDone
    /\ LET r == ask.out[1].results IN
       /\ \A l \in 1..3 : \E k \in 1..Len(r) : r[k].layer = l
       /\ \E k \in 1..Len(r) :
            r[k].layer = 1 /\ \E e \in LikeRows(db, ask.arg.text) : e.id = r[k].id

\* C15: layer 2 is executed only when layer 1 collected fewer than limit
\* results, layer 3 only when layers 1 and 2 together collected fewer than
\* limit, and the list returned is never longer than limit.
C15_LayersWithinLimit ==
    CodeSearchDone =>
        /\ \A k \in 1..Len(ask.out[1].ran) :
             ask.out[1].ran[k].layer > 1 => ask.out[1].ran[k].had < ask.limit
        /\ Len(ask.out[1].results) <= ask.limit

\* Layers 1 and 2 filled the limit between them and layer 3 was not run.
C15_Witness ==
    /\ CodeSearchDone
    /\ Len(ask.out[1].ran) = 2
    /\ ask.out[1].ran[2].had > 0
    /\ Len(ask.out[1].results) = ask.limit
    /\ LikeRows(db, ask.arg.text) # {}

(***************************************************************************)
(* get_node_by_name.                                                       *)
(***************************************************************************)
\* get_node_by_name has returned.
NodeLookupDone == ask.fn = "get_node_by_name" /\ ask.pc = "returned"

\* name with its spaces removed
NoSpaces(name) == Replace(name, <<" ">>, <<>>)

\* Some stored node has this name.
Stored(name) == \E n \in db.nodes : n.name = name

\* C16: get_node_by_name returns the hit of the first of its three tiers
\* that matches (equality with name or display_name; name as a substring;
\* name as a substring once the spaces are removed on both sides) and None
\* only when none matches.  A node stored as 'LoadImage' is what the query
\* 'Load Image' returns and a node stored as 'Load Image' is what the query
\* 'LoadImage' returns, when no node is stored under the name asked for.
C16_NodeLookupTiers ==
    NodeLookupDone =>
        LET name == ask.arg.text
            exact == {n \in db.nodes : n.name = name \/ n.display_name = name}
            sub == {n \in db.nodes : \/ Contains(Fold(n.name), Fold(name))
                                     \/ Contains(Fold(n.display_name), Fold(name))}
            bare == {n \in db.nodes :
                       \/ Contains(Fold(NoSpaces(n.name)), Fold(NoSpaces(name)))
                       \/ Contains(Fold(NoSpaces(n.display_name)), Fold(NoSpaces(name)))}
            hit == {n \in db.nodes : ask.out # <<>> /\ n.id = ask.out[1].id}
        IN /\ exact # {} => hit # {} /\ hit \subseteq exact
           /\ exact = {} /\ sub # {} => hit # {} /\ hit \subseteq sub
           /\ exact = {} /\ sub = {} /\ bare # {} => hit # {} /\ hit \subseteq bare
           /\ ask.out = <<>> <=> exact \cup sub \cup bare = {}
           /\ name = <<"Load", " ", "Image">> /\ Stored(<<"Load", "Image">>) /\ ~Stored(name)
                => ask.out # <<>> /\ ask.out[1].name = <<"Load", "Image">>
           /\ name = <<"Load", "Image">> /\ Stored(<<"Load", " ", "Image">>) /\ ~Stored(name)
                => ask.out # <<>> /\ ask.out[1].name = <<"Load", " ", "Image">>

\* 'Load Image' found 'LoadImage' by the third tier, in a store that also
\* holds a node no tier matches.
C16_Witness ==
    /\ NodeLookupDone
    /\ ask.arg.text = <<"Load", " ", "Image">>
    /\ ask.out # <<>>
    /\ ask.out[1].name = <<"Load", "Image">>
    /\ Stored(<<"Image">>)

\* The exact match was preferred to a row that matches by substring and
\* comes first in the scan.
C16_WitnessExact ==
    /\ NodeLookupDone
    /\ ask.arg.text = <<"Image">>
    /\ ask.out # <<>>
    /\ ask.out[1].name = <<"Image">>
    /\ ask.arg.order = "asc"
    /\ \E n \in db.nodes : n.id < ask.out[1].id /\ n.name = <<"Load", "Image">>

(***************************************************************************)
(* The tools.                                                              *)
(***************************************************************************)
ToolNames ==
    {"search_docs", "get_page", "search_griptape_nodes", "get_node_details",
     "list_categories", "get_code_examples"}

\* A call of a tool has ended.
ToolDone == ask.fn \in ToolNames

\* The text is empty or whitespace only.
Blank(text) == \A k \in 1..Len(text) : text[k] \in Whitespace

\* C17: every tool of the query layer ends by returning a string, never by
\* raising: a message about the argument for an empty, whitespace-only or
\* too long argument and for a source that is none of the three, and a
\* message that nothing was found for a text that is no full-text query and
\* for a lookup without a hit.
C17_ToolsReturnStrings ==
    ToolDone =>
        LET o == ask.out[1]
            text == ask.arg.text
            takes_text == ask.fn # "list_categories"
            valid == ~Blank(text) /\ Len(text) <= MAX_QUERY_LENGTH
        IN /\ ask.pc = "returned"
           /\ o.kind = "str"
           /\ takes_text /\ Blank(text)
                => o.says \in {"Error: query must be a non-empty string.",
                               "Error: url_or_title must be a non-empty string."}
           /\ takes_text /\ ~Blank(text) /\ Len(text) > MAX_QUERY_LENGTH
                => o.says \in {"Error: query too long", "Error: input too long"}
           /\ ask.fn = "search_docs" /\ valid
                /\ ask.arg.opt[1] \notin {"framework", "nodes", "all"}
                => o.says = "Error: source must be 'framework', 'nodes', or 'all'."
           /\ ask.fn = "search_docs" /\ valid
                /\ ask.arg.opt[1] \in {"framework", "nodes", "all"}
                /\ FtsSyntaxError(text)
                => o.says = "No results found"
           /\ ask.fn = "get_code_examples" /\ valid
                /\ LikeRows(db, text) = {} /\ FtsSyntaxError(text)
                => o.says = "No code examples found"
           /\ ask.fn = "get_node_details" /\ valid /\ db.nodes = {}
                => o.says = "No node found"
           /\ ask.fn = "get_page" /\ valid /\ db.pages = {}
                => o.says = "No page found"
           /\ ask.fn = "search_griptape_nodes" /\ valid /\ db.nodes = {}
                => o.says = "No nodes found"

\* search_docs was asked, of a store with pages, for a text that is no
\* full-text query, and said that it found nothing.
C17_Witness ==
    /\ ToolDone
    /\ ask.fn = "search_docs"
    /\ db.pages # {}
    /\ ask.arg.opt = <<"all">>
    /\ ask.arg.text = <<"print(1)">>
    /\ ask.out[1].says = "No results found"

(***************************************************************************)
(* The scrapers: what is fetched, what is counted.                         *)
(***************************************************************************)
\* The URL holds one of the skip patterns of the framework scraper.
HoldsSkipPattern(url) ==
    \/ Contains(url, <<"/", "reference", "/">>)
    \/ Contains(url, <<"/", "search.html">>)
    \/ Contains(url, <<"/", "404.html">>)

\* The run of the framework scraper over the sitemap /reference/x, /framework/agents/.
TwoEntryRun ==
    /\ run.scraper = "framework"
    /\ run.sitemap = <<FwReference, FwAgents>>

\* The page the loop takes next was fetched and has a title.
TitledNext ==
    /\ Head(run.pages).out.error = None
    /\ extract_mkdocs_content(Head(run.pages).out.html[2]).title # <<>>

\* C18: the framework scraper fetches the sitemap URLs that hold none of its
\* skip patterns, all of them and in order, and none that holds one.  Over
\* a sitemap listing /reference/x and /framework/agents/, the page of the
\* latter having a title, one URL is fetched and one page is stored, with
\* source "framework".
C18_FrameworkSkips ==
    /\ [](run.scraper = "framework" /\ run.phase \in {"fetching", "writing"}
            => run.urls = SelectSeq(run.sitemap, LAMBDA u : ~HoldsSkipPattern(u)))
    /\ [][TwoEntryRun /\ PageStep /\ TitledNext
          => /\ run.urls = <<FwAgents>>
             /\ run'.pages = <<>>
             /\ run'.stats.pages = 1
             /\ \E p \in db'.pages :
                  /\ p.url = FwAgents
                  /\ p.source = "framework"
                  /\ db'.pages \ db.pages = {p}]_vars

\* The run over the two entries has stored its one page.
C18_Witness ==
    /\ TwoEntryRun
    /\ run.phase = "writing"
    /\ run.pages = <<>>
    /\ last.wrote
    /\ run.stats.pages = 1
    /\ \E p \in db.pages : p.url = FwAgents /\ p.source = "framework"

\* The title extraction finds in the document the loop takes next.
ExtractedTitle ==
    IF run.scraper = "github"
    THEN parse_markdown(Head(run.pages).out.content).title
    ELSE extract_mkdocs_content(Head(run.pages).out.html[2]).title

\* C19: in each of the three scrapers, a step of the loop on a document whose
\* fetch failed writes nothing and adds one to errors; a step on a fetched
\* document in which extraction finds no title writes nothing and leaves
\* errors alone; and errors changes at no other step, so that it counts the
\* failed fetches.
C19_UntitledSkippedFailedCounted ==
    [][/\ PageStep /\ Head(run.pages).out.error # None
          => db' = db /\ run'.stats.errors = run.stats.errors + 1
       /\ PageStep /\ Head(run.pages).out.error = None /\ ExtractedTitle = <<>>
          => db' = db /\ run'.stats.errors = run.stats.errors
       /\ PageStep /\ Head(run.pages).out.error = None
          => run'.stats.errors = run.stats.errors
       /\ ~PageStep /\ run.phase = "writing"
          => run'.stats.errors = run.stats.errors]_vars

(***************************************************************************)
(* parse_markdown as a function of its text: documents of at most MaxLines *)
(* lines drawn from MdLines.                                               *)
(***************************************************************************)
MaxLines == 6

\* The lines a document is made of: '# Title', '## Setup', 'text', the
\* opening fence of a python block, 'print(1)' and a bare fence.
MdLines ==
    {<<"#", " ", "Title">>, <<"#", "#", " ", "Setup">>, <<"text">>,
     Fence \o <<"python">>, <<"print(1)">>, Fence}

\* The documents: every sequence of 0..MaxLines lines, joined by newlines.
MdDocuments ==
    {Join(ls, "\n") : ls \in UNION {[1..n -> MdLines] : n \in 0..MaxLines}}

InitMarkdown ==
    /\ InitNoFetch
    /\ db = EmptyStore
    /\ run = IdleRun
    /\ last = NoPage
    /\ written = {}
    /\ build = NoBuild
    /\ ask \in {[fn |-> "none", pc |-> "called",
                 arg |-> [text |-> md, opt |-> <<>>, order |-> "asc"],
                 limit |-> 0, out |-> <<>>] : md \in MdDocuments}

\* parse_markdown(content) runs and returns its dict.
ParseMarkdown ==
    /\ ask.pc = "called"
    /\ ask' = [ask EXCEPT !.fn = "parse_markdown", !.pc = "returned",
                          !.out = <<parse_markdown(ask.arg.text)>>]
    /\ UNCHANGED <<db, run, last, written, build, fetchVars, histVars>>

NextMarkdown == ParseMarkdown

SpecMarkdown == InitMarkdown /\ [][NextMarkdown]_vars

(***************************************************************************)
(* The reading of a document line by line that the statement about         *)
(* parse_markdown describes.                                               *)
(***************************************************************************)
\* line k lies inside a code fence: an odd number of fence lines before it
InFence(lines, k) ==
    Cardinality({j \in 1..(k - 1) : StartsWith(lines[j], Fence)}) % 2 = 1

\* line k is neither a fence line nor a line of code
Outside(lines, k) == ~StartsWith(lines[k], Fence) /\ ~InFence(lines, k)

\* the lines that are headings of level 1 to 4 outside a code fence
HeadingsAt(lines) ==
    {k \in 1..Len(lines) : Outside(lines, k) /\ HeadingMatch(lines[k]) # <<>>}

\* the level-1 heading met before any other heading, if there is one
TitleAt(lines) ==
    {k \in HeadingsAt(lines) : /\ HeadingMatch(lines[k])[1] = 1
                               /\ \A j \in HeadingsAt(lines) : k <= j}

RECURSIVE Ascending(_)
Ascending(S) ==
    IF S = {} THEN <<>>
    ELSE LET m == CHOOSE x \in S : \A y \in S : x <= y
         IN <<m>> \o Ascending(S \ {m})

\* the non-heading, non-code lines after heading k up to the next heading
ContentAfter(lines, k) ==
    LET later == {j \in HeadingsAt(lines) : j > k}
        stop == IF later = {} THEN Len(lines) + 1
                ELSE CHOOSE x \in later : \A y \in later : x <= y
        at == Ascending({j \in (k + 1)..(stop - 1) : Outside(lines, j)})
    IN Strip(Join([i \in 1..Len(at) |-> lines[at[i]]], "\n"))

StatedTitle(lines) ==
    IF TitleAt(lines) = {} THEN <<>>
    ELSE HeadingMatch(lines[CHOOSE k \in TitleAt(lines) : TRUE])[2]

StatedSections(lines) ==
    LET at == Ascending(HeadingsAt(lines) \ TitleAt(lines)) IN
    [i \in 1..Len(at) |->
        [heading |-> HeadingMatch(lines[at[i]])[2],
         level |-> HeadingMatch(lines[at[i]])[1],
         content |-> ContentAfter(lines, at[i])]]

MarkdownDone == ask.fn = "parse_markdown" /\ ask.pc = "returned"

\* C20: parse_markdown takes as title a level-1 heading only when it is met
\* before any other heading, does not emit the title heading as a section,
\* and emits every other heading of level 1 to 4 outside a code fence as one
\* section, in document order, whose content is the non-heading, non-code
\* lines up to the next heading; for '# Title', '## Setup', 'text' and a
\* python fence holding 'print(1)' it returns title 'Title', the section
\* Setup with content 'text' and the example python / 'print(1)' under
\* 'Setup'.
C20_MarkdownTitleSections ==
    MarkdownDone =>
        LET lines == Split(ask.arg.text, "\n")
            got == ask.out[1]
        IN /\ got.title = StatedTitle(lines)
           /\ got.sections = StatedSections(lines)
           /\ ask.arg.text = MdTitled =>
                 /\ got.title = <<"Title">>
                 /\ got.sections = <<[heading |-> <<"Setup">>, level |-> 2,
                                      content |-> <<"text">>]>>
                 /\ got.code_examples = <<[language |-> <<"python">>,
                                           code |-> <<"print(1)">>,
                                           context |-> <<"Setup">>]>>

(***************************************************************************)
(* Code blocks of a document and the code examples made of them.           *)
(***************************************************************************)
\* not empty and not only whitespace
NonBlank(code) == Strip(code) # <<>>

\* the texts of the <pre><code> blocks of an HTML document, in order
HtmlBlocks(html) ==
    LET coded == SelectSeq(html.pres, LAMBDA pre : pre.has_code) IN
    [k \in 1..Len(coded) |-> coded[k].code]

\* the texts between an opening fence and its closing fence, in order
FencedBlocks(content) ==
    LET lines == Split(content, "\n")
        at == Ascending({k \in 1..Len(lines) : StartsWith(lines[k], Fence)})
    IN [i \in 1..(Len(at) \div 2) |->
          Join(SubSeq(lines, at[2 * i - 1] + 1, at[2 * i] - 1), "\n")]

\* the code of the rows of code_examples of page id, in the order written
RowsCode(d, id) ==
    LET rows == Sorted({e \in d.code_examples : e.page_id = id}, "asc") IN
    [k \in 1..Len(rows) |-> rows[k].code]

\* the step of the loop that writes the document at the head of run.pages
WritesNext ==
    /\ PageStep
    /\ last'.wrote

\* the code blocks of the document at the head of run.pages
NextBlocks ==
    IF run.scraper = "github" THEN FencedBlocks(Head(run.pages).out.content)
    ELSE HtmlBlocks(Head(run.pages).out.html[2])

\* C21: every code example the extractors produce and every code_examples
\* row the scrapers write has code that is neither empty nor only
\* whitespace: a written document gives one example, and one row, for each
\* of its code blocks whose text is not blank, in order, and none for a
\* blank block.
C21_NoBlankCode ==
    /\ [](/\ \A e \in db.code_examples : NonBlank(e.code)
          /\ \A w \in written : \A k \in 1..Len(w.code_examples) :
                NonBlank(w.code_examples[k].code))
    /\ [][WritesNext =>
            LET kept == SelectSeq(NextBlocks, NonBlank)
                w == CHOOSE x \in written' : x.url = last'.url
            IN /\ Len(w.code_examples) = Len(kept)
               /\ \A k \in 1..Len(kept) :
                    Strip(w.code_examples[k].code) = Strip(kept[k])
               /\ RowsCode(db', db'.seq_pages) =
                    [k \in 1..Len(kept) |-> w.code_examples[k].code]]_vars

\* Both extractors have met a blank block and a block of code: the rows of
\* the two documents are written, one each.
C21_Witness ==
    /\ \E w \in written : w.content = MdBlankCode /\ Len(w.code_examples) = 1
    /\ \E w \in written : w.content = DocAgents.content_text /\ Len(w.code_examples) = 1
    /\ Cardinality(db.code_examples) = 2

(***************************************************************************)
(* The URLs the node web scraper hands to fetch_pages.                     *)
(***************************************************************************)
\* url is BASE_URL followed by /en/stable/
HasStablePrefix(url) == StartsWith(url, <<BASE_URL>> \o STABLE_PREFIX)

\* url with /en/stable/ put between the host and its path
WithStablePrefix(url) == <<BASE_URL>> \o STABLE_PREFIX \o LStripSet(Tail(url), {"/"})

\* what the statement says a sitemap URL becomes
Canonical(url) == IF HasStablePrefix(url) THEN url ELSE WithStablePrefix(url)

\* the first place of x in the sequence xs
FirstAt(xs, x) == CHOOSE k \in 1..Len(xs) : xs[k] = x /\ \A j \in 1..(k - 1) : xs[j] # x

NodesFetching == run.scraper = "nodes" /\ run.phase \in {"fetching", "writing"}

\* C22: in the node web scraper every URL passed to the fetcher starts with
\* the base URL followed by /en/stable/ (a sitemap URL without the prefix is
\* rewritten to carry it, one with it is unchanged, normalising twice
\* changes nothing), the list holds no URL twice and is in the order of the
\* first occurrence of each normalised URL in the sitemap.
C22_NodeUrlsNormalized ==
    NodesFetching =>
        LET listed == SelectSeq(run.sitemap, LAMBDA e : ~nodes_should_skip(e))
            canon == [k \in 1..Len(listed) |-> Canonical(listed[k])]
        IN /\ \A k \in 1..Len(run.urls) :
                /\ HasStablePrefix(run.urls[k])
                /\ normalize_url(run.urls[k]) = run.urls[k]
           /\ \A i, j \in 1..Len(run.urls) : i # j => run.urls[i] # run.urls[j]
           /\ {run.urls[k] : k \in 1..Len(run.urls)} = {canon[k] : k \in 1..Len(canon)}
           /\ \A i, j \in 1..Len(run.urls) :
                i < j => FirstAt(canon, run.urls[i]) < FirstAt(canon, run.urls[j])

\* The sitemap lists a URL without the prefix, and fewer URLs are fetched
\* than it lists: two entries have become one URL.
C22_Witness ==
    /\ NodesFetching
    /\ \E k \in 1..Len(run.sitemap) : ~HasStablePrefix(run.sitemap[k])
    /\ Len(run.urls) < Len(run.sitemap)
    /\ run.urls # <<>>

(***************************************************************************)
(* The node-documentation shape of a URL or file path, by its segments.    *)
(***************************************************************************)
\* a run of word characters, not empty
IsWord(seg) == seg # <<>> /\ \A k \in 1..Len(seg) : seg[k] \notin NonWord

\* <<category slug, name>> of a URL .../nodes/<category>/<name> with or
\* without a closing slash, <<>> for any other URL
WebShape(url) ==
    LET segs == Split(url, "/")
        body == IF segs[Len(segs)] = <<>> THEN SubSeq(segs, 1, Len(segs) - 1) ELSE segs
        n == Len(body)
    IN IF n >= 4 /\ body[n - 2] = <<"nodes">> /\ IsWord(body[n - 1]) /\ IsWord(body[n])
       THEN <<body[n - 1], body[n]>>
       ELSE <<>>

\* <<category slug, name>> of a path ...docs/nodes/<category>/<name>.md
GithubShape(path) ==
    LET segs == Split(path, "/")
        n == Len(segs)
        file == segs[n]
        name == SubSeq(file, 1, Len(file) - 1)
    IN IF /\ n >= 4
          /\ EndsWith(segs[n - 3], <<"docs">>)
          /\ segs[n - 2] = <<"nodes">>
          /\ IsWord(segs[n - 1])
          /\ EndsWith(file, <<".md">>) /\ IsWord(name)
       THEN <<segs[n - 1], name>>
       ELSE <<>>

\* the category of a slug under a CATEGORY_MAP
StatedCategory(slug, map) ==
    IF slug \in DOMAIN map THEN map[slug] ELSE Title(Replace(slug, <<"_">>, <<" ">>))

\* the node rows a step adds
NewNodes == {n \in db'.nodes : n.id > db.seq_nodes}

\* the step adds one node row, of the page it wrote, with this category
OneNode(category) ==
    \E n \in NewNodes :
        /\ NewNodes = {n}
        /\ n.category = category
        /\ n.page_id = db'.seq_pages
        /\ \E p \in db'.pages : p.id = n.page_id /\ p.url = last'.url

\* C23: a node row is derived only from a page whose URL or file path has
\* the shape .../nodes/<category>/<name>; its category is the CATEGORY_MAP
\* entry of the category slug, or the slug with underscores replaced by
\* spaces and title-cased when the map does not hold it; the GitHub variant
\* derives no node under the slug 'overview'; a page without the shape
\* yields no node, and no other step adds a node row.
C23_NodeDerivation ==
    [][IF WritesNext
       THEN CASE run.scraper = "nodes" ->
                   LET m == WebShape(Head(run.pages).out.url) IN
                   IF m = <<>> THEN NewNodes = {}
                   ELSE OneNode(StatedCategory(m[1], CATEGORY_MAP_WEB))
              [] run.scraper = "github" ->
                   LET m == GithubShape(Head(run.pages).out.path) IN
                   IF m = <<>> \/ m[1] = <<"overview">> THEN NewNodes = {}
                   ELSE OneNode(StatedCategory(m[1], CATEGORY_MAP_GITHUB))
              [] OTHER -> NewNodes = {}
       ELSE NewNodes = {}]_vars

\* The store holds a node whose category is the humanized slug custom_nodes
\* and the page of the overview index, written by the GitHub variant, with
\* no node.
C23_Witness ==
    /\ \E n \in db.nodes : n.category = <<"Custom", " ", "Nodes">> /\ n.page_id # Null
    /\ \E p \in db.pages :
          /\ p.url = path_to_docs_url(GhOverview.path)
          /\ \A n \in db.nodes : n.page_id # p.id

(***************************************************************************)
(* The starts of the GitHub fallback within one build.                     *)
(***************************************************************************)
\* the calls of scrape_nodes_github build has made
GithubCalls == {k \in 1..Len(build.log) : build.log[k] = "github"}

\* C24: within one build the GitHub fallback scraper is started at most
\* once: when the fallback started because the node web scraper returned
\* errors > pages raises, build does not start it a second time.
C24_FallbackStartedOnce == Cardinality(GithubCalls) <= 1

(***************************************************************************)
(* The category filter of search_nodes.                                    *)
(***************************************************************************)
NodeSearchDone == ask.fn = "search_nodes" /\ ask.pc = "returned"

\* C25: when search_nodes is called with a category, every node it returns
\* has that category, for every query, the multi-word queries answered by
\* the per-word fallback included.
C25_CategoryFilter ==
    NodeSearchDone /\ ask.arg.opt # None
        => \A k \in 1..Len(ask.out) : ask.out[k].category = ask.arg.opt

(***************************************************************************)
(* Node rows and the pages they refer to.                                  *)
(***************************************************************************)
\* the page a node row refers to, as a set
PageOf(n) == {p \in db.pages : p.id = n.page_id}

\* C26: after any sequence of node-scraper runs on the same store, every
\* node row's page_id refers to an existing page and no two node rows
\* belong to the same page: the re-write of a page leaves no node row of
\* the superseded page behind with a null page_id.
C26_NodesFollowPages ==
    /\ \A n \in db.nodes : n.page_id # Null /\ PageOf(n) # {}
    /\ \A n, m \in db.nodes : n.page_id = m.page_id => n = m

(***************************************************************************)
(* Termination of fetch_pages.                                             *)
(***************************************************************************)
\* fetch_pages has returned: every task has its outcome and its permit is back
AllReturned ==
    /\ fp = "returned"
    /\ Len(results) = Len(urls)
    /\ \A i \in Tasks : pc[i] = "done" /\ result[i] # NoOutcome
    /\ value = MAX_CONCURRENT
    /\ waiters = <<>>

\* C27: under a fair event loop, every request being answered and every
\* sleep ending, fetch_pages eventually returns: every task acquires a
\* permit, produces its outcome and releases the permit, also when more
\* URLs than permits are rate-limited.
C27_FetchPagesReturns == <>AllReturned

\* A run over more URLs than permits, every one of them rate-limited until
\* its retries were exhausted, has returned.
C27_Witness ==
    /\ AllReturned
    /\ Len(urls) > MAX_CONCURRENT
    /\ \A i \in Tasks : result[i].error = MaxRetriesExceeded

(***************************************************************************)
(* The waits of a URL that is refused at every attempt.                    *)
(***************************************************************************)
RECURSIVE SumSeq(_)
SumSeq(s) == IF s = <<>> THEN 0 ELSE s[1] + SumSeq(Tail(s))

\* The watched URL has used up its attempts: its outcome is the terminal
\* error of fetch_one.
RetriesExhausted ==
    /\ Watched
    /\ pc[watch] = "done"
    /\ result[watch].error = MaxRetriesExceeded

\* C28: a backoff wait happens only between two attempts: after the 429
\* answer to the 5th attempt the terminal error is returned with no further
\* wait, so a URL that exhausts its retries has waited 10+20+30+40 = 100
\* seconds in total.
C28_NoWaitAfterLastAttempt ==
    RetriesExhausted =>
       /\ Len(waits) = MAX_RETRIES - 1
       /\ SumSeq(waits) = 100

(***************************************************************************)
(* The number of results of search_code_examples.                          *)
(***************************************************************************)
\* The ids of the code examples matched by at least one of the three
\* layers; a text FTS5 cannot parse makes the two FTS layers match nothing.
MatchedExamples(d, query) ==
    {r.id : r \in (IF FtsSyntaxError(query) THEN {}
                   ELSE SectionFtsRows(d, query) \cup PageFtsRows(d, query))
                  \cup LikeRows(d, query)}

Min(a, b) == IF a <= b THEN a ELSE b

\* C29: search_code_examples returns min(limit, n) results, n being the
\* number of distinct code examples matched by at least one of the three
\* layers: rows of a later layer that repeat examples already collected do
\* not leave the result short of limit while further matching examples exist.
C29_MinLimitMatches ==
    CodeSearchDone =>
       Len(ask.out[1].results)
          = Min(ask.limit, Cardinality(MatchedExamples(db, ask.arg.text)))

=============================================================================
